---- MODULE Spec2Model ----
(***************************************************************************)
(* A model of filerename.py: the filename date parser, the mismatch        *)
(* checker, the rename decision engine and the path walker.                *)
(*                                                                         *)
(* File names are sequences of one-character strings, so that formatting   *)
(* (strftime, the _NNN counter) and parsing (splitext, the three regular   *)
(* expressions) are computed character by character as the code does.      *)
(* A path is a record [form, dir, name]: form tells whether the path       *)
(* string is absolute or relative, dir names the directory, name is the    *)
(* base name.                                                              *)
(***************************************************************************)
EXTENDS Integers, Sequences, FiniteSets, TLC

VARIABLES
    files,          \* the filesystem: inode id -> [dir, name, mtime, exif, movable, content]
    next_id,        \* the next free inode id (files the program creates)
    options,        \* the globals dry_run_mode, safe_mode, log_mode
    target_path,    \* main's target_path (log_file_path is derived from it)
    pc,             \* "menu": between operations; "walking": in os.walk; "crashed": an exception left process_path
    walk,           \* the position of process_path's directory loop
    ops,            \* the number of process_path operations started
    last,           \* the latest rename_file_by_date call: its arguments, settings and outcome
    history,        \* every completed os.rename, in order
    pin,            \* pure-function specifications: the input
    pout            \* pure-function specifications: the result

vars == <<files, next_id, options, target_path, pc, walk, ops, last, history, pin, pout>>

\* Python's None, comparable with dates, paths and names
None == [none |-> TRUE]

\* ------------------------------------------------------------------ characters

DigitChars == <<"0", "1", "2", "3", "4", "5", "6", "7", "8", "9">>

\* \d of a str pattern matches every decimal digit of Unicode, and int() reads
\* them all: the ASCII digits and, of the other scripts, the rows this module's
\* strings can hold, each from its zero to its nine
DigitRows ==
    { DigitChars,
      <<"۰", "۱", "۲", "۳", "۴", "۵", "۶", "۷", "۸", "۹">>,
      <<"߀", "߁", "߂", "߃", "߄", "߅", "߆", "߇", "߈", "߉">>,
      <<"০", "১", "২", "৩", "৪", "৫", "৬", "৭", "৮", "৯">>,
      <<"૦", "૧", "૨", "૩", "૪", "૫", "૬", "૭", "૮", "૯">>,
      <<"௦", "௧", "௨", "௩", "௪", "௫", "௬", "௭", "௮", "௯">>,
      <<"೦", "೧", "೨", "೩", "೪", "೫", "೬", "೭", "೮", "೯">>,
      <<"෦", "෧", "෨", "෩", "෪", "෫", "෬", "෭", "෮", "෯">>,
      <<"໐", "໑", "໒", "໓", "໔", "໕", "໖", "໗", "໘", "໙">>,
      <<"႐", "႑", "႒", "႓", "႔", "႕", "႖", "႗", "႘", "႙">>,
      <<"០", "១", "២", "៣", "៤", "៥", "៦", "៧", "៨", "៩">>,
      <<"᧐", "᧑", "᧒", "᧓", "᧔", "᧕", "᧖", "᧗", "᧘", "᧙">>,
      <<"᪀", "᪁", "᪂", "᪃", "᪄", "᪅", "᪆", "᪇", "᪈", "᪉">>,
      <<"᪐", "᪑", "᪒", "᪓", "᪔", "᪕", "᪖", "᪗", "᪘", "᪙">>,
      <<"᮰", "᮱", "᮲", "᮳", "᮴", "᮵", "᮶", "᮷", "᮸", "᮹">>,
      <<"꣐", "꣑", "꣒", "꣓", "꣔", "꣕", "꣖", "꣗", "꣘", "꣙">>,
      <<"꧐", "꧑", "꧒", "꧓", "꧔", "꧕", "꧖", "꧗", "꧘", "꧙">>,
      <<"꧰", "꧱", "꧲", "꧳", "꧴", "꧵", "꧶", "꧷", "꧸", "꧹">>,
      <<"꯰", "꯱", "꯲", "꯳", "꯴", "꯵", "꯶", "꯷", "꯸", "꯹">> }

IsDigit(c) == \E row \in DigitRows : \E i \in 1..10 : row[i] = c

DigitVal(c) == (CHOOSE i \in 1..10 : \E row \in DigitRows : row[i] = c) - 1

\* int() of a run of decimal digits
RECURSIVE ToInt(_)
ToInt(s) == IF s = <<>> THEN 0
            ELSE 10 * ToInt(SubSeq(s, 1, Len(s) - 1)) + DigitVal(s[Len(s)])

\* the decimal digits of n >= 0, without padding
RECURSIVE Decimal(_)
Decimal(n) == IF n < 10 THEN <<DigitChars[n + 1]>>
              ELSE Decimal(n \div 10) \o <<DigitChars[(n % 10) + 1]>>

RECURSIVE Zeros(_)
Zeros(k) == IF k <= 0 THEN <<>> ELSE <<"0">> \o Zeros(k - 1)

\* format(n, "0<w>d"): zero-padded to at least w digits, never truncated
ZeroPad(n, w) == Zeros(w - Len(Decimal(n))) \o Decimal(n)

AllDigits(s, from, to) == \A i \in from..to : IsDigit(s[i])

\* regular-expression class \s of a str pattern: the ASCII white space (with the
\* vertical tab and the separators U+001C..U+001F) and the Unicode spaces this
\* module's strings can hold: U+0085, U+00A0, U+1680
WhiteSpace == {" ", "\t", "\n", "\r", "\f", "", "", "", "", "", "", " ", " "}

\* ------------------------------------------------------------------ datetime

Date(y, m, d, h, mi, s) == [y |-> y, m |-> m, d |-> d, h |-> h, mi |-> mi, s |-> s]

IsLeap(y) == (y % 4 = 0) /\ ((y % 100 # 0) \/ (y % 400 = 0))

DaysInMonth(y, m) ==
    IF m = 2 THEN (IF IsLeap(y) THEN 29 ELSE 28)
    ELSE IF m \in {4, 6, 9, 11} THEN 30 ELSE 31

\* datetime.datetime(y, m, d, h, mi, s) raises ValueError unless this holds
ValidDate(y, m, d, h, mi, s) ==
    /\ y >= 1 /\ y <= 9999
    /\ m >= 1 /\ m <= 12
    /\ d >= 1 /\ d <= DaysInMonth(y, m)
    /\ h >= 0 /\ h <= 23
    /\ mi >= 0 /\ mi <= 59
    /\ s >= 0 /\ s <= 59

RECURSIVE DaysBeforeMonth(_, _)
DaysBeforeMonth(y, m) == IF m <= 1 THEN 0
                         ELSE DaysBeforeMonth(y, m - 1) + DaysInMonth(y, m - 1)

\* date.toordinal()
Ordinal(t) ==
    LET y1 == t.y - 1
    IN  y1 * 365 + (y1 \div 4) - (y1 \div 100) + (y1 \div 400)
        + DaysBeforeMonth(t.y, t.m) + t.d

\* (a - b).total_seconds()
TotalSeconds(a, b) ==
    (Ordinal(a) - Ordinal(b)) * 86400
    + (a.h - b.h) * 3600 + (a.mi - b.mi) * 60 + (a.s - b.s)

Abs(x) == IF x < 0 THEN 0 - x ELSE x

\* target_date.strftime('%Y-%m-%d %H-%M-%S'), for the four-digit years the
\* model draws its dates from
strftime(t) ==
    ZeroPad(t.y, 4) \o <<"-">> \o ZeroPad(t.m, 2) \o <<"-">> \o ZeroPad(t.d, 2)
    \o <<" ">> \o ZeroPad(t.h, 2) \o <<"-">> \o ZeroPad(t.mi, 2) \o <<"-">> \o ZeroPad(t.s, 2)

\* ------------------------------------------------------------------ os.path

\* index of the last "." of a name, 0 when there is none
RECURSIVE LastDot(_, _)
LastDot(s, i) == IF i = 0 THEN 0
                 ELSE IF s[i] = "." THEN i ELSE LastDot(s, i - 1)

\* os.path.splitext on a base name: the extension starts at the last dot,
\* unless only dots precede it
splitext(name) ==
    LET dot == LastDot(name, Len(name))
    IN  IF dot > 0 /\ \E i \in 1..(dot - 1) : name[i] # "."
        THEN <<SubSeq(name, 1, dot - 1), SubSeq(name, dot, Len(name))>>
        ELSE <<name, <<>>>>

UpperLetters == <<"A", "B", "C", "D", "E", "F", "G", "H", "I", "J", "K", "L", "M",
                  "N", "O", "P", "Q", "R", "S", "T", "U", "V", "W", "X", "Y", "Z">>
LowerLetters == <<"a", "b", "c", "d", "e", "f", "g", "h", "i", "j", "k", "l", "m",
                  "n", "o", "p", "q", "r", "s", "t", "u", "v", "w", "x", "y", "z">>

\* str.lower beyond ASCII: the capitals this module's strings can hold, each
\* with its lowercase letter
LowerPairs ==
    {       <<"À", "à">>, <<"Á", "á">>, <<"Â", "â">>, <<"Ã", "ã">>, <<"Ä", "ä">>, <<"Å", "å">>,
      <<"Æ", "æ">>, <<"Ç", "ç">>, <<"È", "è">>, <<"É", "é">>, <<"Ê", "ê">>, <<"Ë", "ë">>,
      <<"Ì", "ì">>, <<"Í", "í">>, <<"Î", "î">>, <<"Ï", "ï">>, <<"Ð", "ð">>, <<"Ñ", "ñ">>,
      <<"Ò", "ò">>, <<"Ó", "ó">>, <<"Ô", "ô">>, <<"Õ", "õ">>, <<"Ö", "ö">>, <<"Ø", "ø">>,
      <<"Ù", "ù">>, <<"Ú", "ú">>, <<"Û", "û">>, <<"Ü", "ü">>, <<"Ý", "ý">>, <<"Þ", "þ">>,
      <<"Ƃ", "ƃ">>, <<"Ƅ", "ƅ">>, <<"Ƈ", "ƈ">>, <<"Ƌ", "ƌ">>, <<"Ǝ", "ǝ">>, <<"Ƒ", "ƒ">>,
      <<"Ƙ", "ƙ">>, <<"Ơ", "ơ">>, <<"Ƣ", "ƣ">>, <<"Ƥ", "ƥ">>, <<"Ʀ", "ʀ">>, <<"Ƨ", "ƨ">>,
      <<"Ʃ", "ʃ">>, <<"Ƭ", "ƭ">>, <<"Ʈ", "ʈ">>, <<"Ư", "ư">>, <<"Ʊ", "ʊ">>, <<"Ʋ", "ʋ">>,
      <<"Ƴ", "ƴ">>, <<"Ƶ", "ƶ">>, <<"Ʒ", "ʒ">>, <<"Ƹ", "ƹ">>, <<"Ƽ", "ƽ">>, <<"Ǆ", "ǆ">>,
      <<"ǅ", "ǆ">>, <<"Ǉ", "ǉ">>, <<"ǈ", "ǉ">>, <<"Ǌ", "ǌ">>, <<"ǋ", "ǌ">>, <<"Ǎ", "ǎ">>,
      <<"Ǐ", "ǐ">>, <<"Ǒ", "ǒ">>, <<"Ǔ", "ǔ">>, <<"Ǖ", "ǖ">>, <<"Ǘ", "ǘ">>, <<"Ǚ", "ǚ">>,
      <<"Ǜ", "ǜ">>, <<"Ǟ", "ǟ">>, <<"Ǡ", "ǡ">>, <<"Ǣ", "ǣ">>, <<"Ǥ", "ǥ">>, <<"Ǧ", "ǧ">>,
      <<"Ǩ", "ǩ">>, <<"Ǫ", "ǫ">>, <<"Ǭ", "ǭ">>, <<"Ǯ", "ǯ">>, <<"Ǳ", "ǳ">>, <<"ǲ", "ǳ">>,
      <<"Ǵ", "ǵ">>, <<"Ƕ", "ƕ">>, <<"Ƿ", "ƿ">>, <<"Ǹ", "ǹ">>, <<"Ǻ", "ǻ">>, <<"Ǽ", "ǽ">>,
      <<"Ǿ", "ǿ">>, <<"Ά", "ά">>, <<"Έ", "έ">>, <<"Ή", "ή">>, <<"Ί", "ί">>, <<"Ό", "ό">>,
      <<"Ύ", "ύ">>, <<"Ώ", "ώ">>, <<"Α", "α">>, <<"Β", "β">>, <<"Γ", "γ">>, <<"Δ", "δ">>,
      <<"Ε", "ε">>, <<"Ζ", "ζ">>, <<"Η", "η">>, <<"Θ", "θ">>, <<"Ι", "ι">>, <<"Κ", "κ">>,
      <<"Λ", "λ">>, <<"Μ", "μ">>, <<"Ν", "ν">>, <<"Ξ", "ξ">>, <<"Ο", "ο">>, <<"Π", "π">>,
      <<"Ρ", "ρ">>, <<"Σ", "σ">>, <<"Τ", "τ">>, <<"Υ", "υ">>, <<"Φ", "φ">>, <<"Χ", "χ">>,
      <<"Ψ", "ψ">>, <<"Ω", "ω">>, <<"Ϊ", "ϊ">>, <<"Ϋ", "ϋ">>, <<"Ϗ", "ϗ">>, <<"Ϙ", "ϙ">>,
      <<"Ϛ", "ϛ">>, <<"Ϝ", "ϝ">>, <<"Ϟ", "ϟ">>, <<"Ϡ", "ϡ">>, <<"Ϣ", "ϣ">>, <<"Ϥ", "ϥ">>,
      <<"Ϧ", "ϧ">>, <<"Ϩ", "ϩ">>, <<"Ϫ", "ϫ">>, <<"Ϭ", "ϭ">>, <<"Ϯ", "ϯ">>, <<"ϴ", "θ">>,
      <<"Ϸ", "ϸ">>, <<"Ϲ", "ϲ">>, <<"Ϻ", "ϻ">>, <<"Ҁ", "ҁ">>, <<"Ҋ", "ҋ">>, <<"Ҍ", "ҍ">>,
      <<"Ҏ", "ҏ">>, <<"Ґ", "ґ">>, <<"Ғ", "ғ">>, <<"Ҕ", "ҕ">>, <<"Җ", "җ">>, <<"Ҙ", "ҙ">>,
      <<"Қ", "қ">>, <<"Ҝ", "ҝ">>, <<"Ҟ", "ҟ">>, <<"Ҡ", "ҡ">>, <<"Ң", "ң">>, <<"Ҥ", "ҥ">>,
      <<"Ҧ", "ҧ">>, <<"Ҩ", "ҩ">>, <<"Ҫ", "ҫ">>, <<"Ҭ", "ҭ">>, <<"Ү", "ү">>, <<"Ұ", "ұ">>,
      <<"Ҳ", "ҳ">>, <<"Ҵ", "ҵ">>, <<"Ҷ", "ҷ">>, <<"Ҹ", "ҹ">>, <<"Һ", "һ">>, <<"Ҽ", "ҽ">>,
      <<"Ҿ", "ҿ">>, <<"Ӏ", "ӏ">>, <<"Ӂ", "ӂ">>, <<"Ӄ", "ӄ">>, <<"Ӆ", "ӆ">>, <<"Ӈ", "ӈ">>,
      <<"Ӊ", "ӊ">>, <<"Ӌ", "ӌ">>, <<"Ӎ", "ӎ">>, <<"Ӑ", "ӑ">>, <<"Ӓ", "ӓ">>, <<"Ӕ", "ӕ">>,
      <<"Ӗ", "ӗ">>, <<"Ә", "ә">>, <<"Ӛ", "ӛ">>, <<"Ӝ", "ӝ">>, <<"Ӟ", "ӟ">>, <<"Ӡ", "ӡ">>,
      <<"Ӣ", "ӣ">>, <<"Ӥ", "ӥ">>, <<"Ӧ", "ӧ">>, <<"Ө", "ө">>, <<"Ӫ", "ӫ">>, <<"Ӭ", "ӭ">>,
      <<"Ӯ", "ӯ">>, <<"Ӱ", "ӱ">>, <<"Ӳ", "ӳ">>, <<"Ӵ", "ӵ">>, <<"Ӷ", "ӷ">>, <<"Ӹ", "ӹ">>,
      <<"Ӻ", "ӻ">>, <<"Ӽ", "ӽ">>, <<"Ӿ", "ӿ">>, <<"Ꮀ", "ꮀ">>, <<"Ꮁ", "ꮁ">>, <<"Ꮂ", "ꮂ">>,
      <<"Ꮃ", "ꮃ">>, <<"Ꮄ", "ꮄ">>, <<"Ꮅ", "ꮅ">>, <<"Ꮆ", "ꮆ">>, <<"Ꮇ", "ꮇ">>, <<"Ꮈ", "ꮈ">>,
      <<"Ꮉ", "ꮉ">>, <<"Ꮊ", "ꮊ">>, <<"Ꮋ", "ꮋ">>, <<"Ꮌ", "ꮌ">>, <<"Ꮍ", "ꮍ">>, <<"Ꮎ", "ꮎ">>,
      <<"Ꮏ", "ꮏ">>, <<"Ꮐ", "ꮐ">>, <<"Ꮑ", "ꮑ">>, <<"Ꮒ", "ꮒ">>, <<"Ꮓ", "ꮓ">>, <<"Ꮔ", "ꮔ">>,
      <<"Ꮕ", "ꮕ">>, <<"Ꮖ", "ꮖ">>, <<"Ꮗ", "ꮗ">>, <<"Ꮘ", "ꮘ">>, <<"Ꮙ", "ꮙ">>, <<"Ꮚ", "ꮚ">>,
      <<"Ꮛ", "ꮛ">>, <<"Ꮜ", "ꮜ">>, <<"Ꮝ", "ꮝ">>, <<"Ꮞ", "ꮞ">>, <<"Ꮟ", "ꮟ">>, <<"Ꮠ", "ꮠ">>,
      <<"Ꮡ", "ꮡ">>, <<"Ꮢ", "ꮢ">>, <<"Ꮣ", "ꮣ">>, <<"Ꮤ", "ꮤ">>, <<"Ꮥ", "ꮥ">>, <<"Ꮦ", "ꮦ">>,
      <<"Ꮧ", "ꮧ">>, <<"Ꮨ", "ꮨ">>, <<"Ꮩ", "ꮩ">>, <<"Ꮪ", "ꮪ">>, <<"Ꮫ", "ꮫ">>, <<"Ꮬ", "ꮬ">>,
      <<"Ꮭ", "ꮭ">>, <<"Ꮮ", "ꮮ">>, <<"Ꮯ", "ꮯ">>, <<"Ꮰ", "ꮰ">>, <<"Ꮱ", "ꮱ">>, <<"Ꮲ", "ꮲ">>,
      <<"Ꮳ", "ꮳ">>, <<"Ꮴ", "ꮴ">>, <<"Ꮵ", "ꮵ">>, <<"Ꮶ", "ꮶ">>, <<"Ꮷ", "ꮷ">>, <<"Ꮸ", "ꮸ">>,
      <<"Ꮹ", "ꮹ">>, <<"Ꮺ", "ꮺ">>, <<"Ꮻ", "ꮻ">>, <<"Ꮼ", "ꮼ">>, <<"Ꮽ", "ꮽ">>, <<"Ꮾ", "ꮾ">>,
      <<"Ꮿ", "ꮿ">>, <<"Ᏸ", "ᏸ">>, <<"Ᏹ", "ᏹ">>, <<"Ᏺ", "ᏺ">>, <<"Ᏻ", "ᏻ">>, <<"Ᏼ", "ᏼ">>,
      <<"Ᏽ", "ᏽ">>, <<"Ა", "ა">>, <<"Ბ", "ბ">>, <<"Გ", "გ">>, <<"Დ", "დ">>, <<"Ე", "ე">>,
      <<"Ვ", "ვ">>, <<"Ზ", "ზ">>, <<"Თ", "თ">>, <<"Ი", "ი">>, <<"Კ", "კ">>, <<"Ლ", "ლ">>,
      <<"Მ", "მ">>, <<"Ნ", "ნ">>, <<"Ო", "ო">>, <<"Პ", "პ">>, <<"Ჟ", "ჟ">>, <<"Რ", "რ">>,
      <<"Ს", "ს">>, <<"Ტ", "ტ">>, <<"Უ", "უ">>, <<"Ფ", "ფ">>, <<"Ქ", "ქ">>, <<"Ღ", "ღ">>,
      <<"Ყ", "ყ">>, <<"Შ", "შ">>, <<"Ჩ", "ჩ">>, <<"Ც", "ც">>, <<"Ძ", "ძ">>, <<"Წ", "წ">>,
      <<"Ჭ", "ჭ">>, <<"Ხ", "ხ">>, <<"Ჯ", "ჯ">>, <<"Ჰ", "ჰ">>, <<"Ჱ", "ჱ">>, <<"Ჲ", "ჲ">>,
      <<"Ჳ", "ჳ">>, <<"Ჴ", "ჴ">>, <<"Ჵ", "ჵ">>, <<"Ჶ", "ჶ">>, <<"Ჷ", "ჷ">>, <<"Ჸ", "ჸ">>,
      <<"Ჹ", "ჹ">>, <<"Ჺ", "ჺ">>, <<"Ჽ", "ჽ">>, <<"Ჾ", "ჾ">>, <<"Ჿ", "ჿ">>, <<"Ẁ", "ẁ">>,
      <<"Ẃ", "ẃ">>, <<"Ẅ", "ẅ">>, <<"Ẇ", "ẇ">>, <<"Ẉ", "ẉ">>, <<"Ẋ", "ẋ">>, <<"Ẍ", "ẍ">>,
      <<"Ẏ", "ẏ">>, <<"Ẑ", "ẑ">>, <<"Ẓ", "ẓ">>, <<"Ẕ", "ẕ">>, <<"ẞ", "ß">>, <<"Ạ", "ạ">>,
      <<"Ả", "ả">>, <<"Ấ", "ấ">>, <<"Ầ", "ầ">>, <<"Ẩ", "ẩ">>, <<"Ẫ", "ẫ">>, <<"Ậ", "ậ">>,
      <<"Ắ", "ắ">>, <<"Ằ", "ằ">>, <<"Ẳ", "ẳ">>, <<"Ẵ", "ẵ">>, <<"Ặ", "ặ">>, <<"Ẹ", "ẹ">>,
      <<"Ẻ", "ẻ">>, <<"Ẽ", "ẽ">>, <<"Ế", "ế">>, <<"Ề", "ề">>, <<"Ể", "ể">>, <<"Ễ", "ễ">>,
      <<"Ệ", "ệ">>, <<"Ỉ", "ỉ">>, <<"Ị", "ị">>, <<"Ọ", "ọ">>, <<"Ỏ", "ỏ">>, <<"Ố", "ố">>,
      <<"Ồ", "ồ">>, <<"Ổ", "ổ">>, <<"Ỗ", "ỗ">>, <<"Ộ", "ộ">>, <<"Ớ", "ớ">>, <<"Ờ", "ờ">>,
      <<"Ở", "ở">>, <<"Ỡ", "ỡ">>, <<"Ợ", "ợ">>, <<"Ụ", "ụ">>, <<"Ủ", "ủ">>, <<"Ứ", "ứ">>,
      <<"Ừ", "ừ">>, <<"Ử", "ử">>, <<"Ữ", "ữ">>, <<"Ự", "ự">>, <<"Ỳ", "ỳ">>, <<"Ỵ", "ỵ">>,
      <<"Ỷ", "ỷ">>, <<"Ỹ", "ỹ">>, <<"Ỻ", "ỻ">>, <<"Ỽ", "ỽ">>, <<"Ỿ", "ỿ">>, <<"ᾈ", "ᾀ">>,
      <<"ᾉ", "ᾁ">>, <<"ᾊ", "ᾂ">>, <<"ᾋ", "ᾃ">>, <<"ᾌ", "ᾄ">>, <<"ᾍ", "ᾅ">>, <<"ᾎ", "ᾆ">>,
      <<"ᾏ", "ᾇ">>, <<"ᾘ", "ᾐ">>, <<"ᾙ", "ᾑ">>, <<"ᾚ", "ᾒ">>, <<"ᾛ", "ᾓ">>, <<"ᾜ", "ᾔ">>,
      <<"ᾝ", "ᾕ">>, <<"ᾞ", "ᾖ">>, <<"ᾟ", "ᾗ">>, <<"ᾨ", "ᾠ">>, <<"ᾩ", "ᾡ">>, <<"ᾪ", "ᾢ">>,
      <<"ᾫ", "ᾣ">>, <<"ᾬ", "ᾤ">>, <<"ᾭ", "ᾥ">>, <<"ᾮ", "ᾦ">>, <<"ᾯ", "ᾧ">>, <<"Ᾰ", "ᾰ">>,
      <<"Ᾱ", "ᾱ">>, <<"ᾼ", "ᾳ">>, <<"ῌ", "ῃ">>, <<"Ῐ", "ῐ">>, <<"Ῑ", "ῑ">>, <<"Ῠ", "ῠ">>,
      <<"Ῡ", "ῡ">>, <<"Ῥ", "ῥ">>, <<"ῼ", "ῳ">>, <<"Ↄ", "ↄ">>, <<"Ⓐ", "ⓐ">>, <<"Ⓑ", "ⓑ">>,
      <<"Ⓒ", "ⓒ">>, <<"Ⓓ", "ⓓ">>, <<"Ⓔ", "ⓔ">>, <<"Ⓕ", "ⓕ">>, <<"Ⓖ", "ⓖ">>, <<"Ⓗ", "ⓗ">>,
      <<"Ⓘ", "ⓘ">>, <<"Ⓙ", "ⓙ">>, <<"Ⓚ", "ⓚ">>, <<"Ⓛ", "ⓛ">>, <<"Ⓜ", "ⓜ">>, <<"Ⓝ", "ⓝ">>,
      <<"Ⓞ", "ⓞ">>, <<"Ⓟ", "ⓟ">>, <<"Ⓠ", "ⓠ">>, <<"Ⓡ", "ⓡ">>, <<"Ⓢ", "ⓢ">>, <<"Ⓣ", "ⓣ">>,
      <<"Ⓤ", "ⓤ">>, <<"Ⓥ", "ⓥ">>, <<"Ⓦ", "ⓦ">>, <<"Ⓧ", "ⓧ">>, <<"Ⓨ", "ⓨ">>, <<"Ⓩ", "ⓩ">>,
      <<"Ⲁ", "ⲁ">>, <<"Ⲃ", "ⲃ">>, <<"Ⲅ", "ⲅ">>, <<"Ⲇ", "ⲇ">>, <<"Ⲉ", "ⲉ">>, <<"Ⲋ", "ⲋ">>,
      <<"Ⲍ", "ⲍ">>, <<"Ⲏ", "ⲏ">>, <<"Ⲑ", "ⲑ">>, <<"Ⲓ", "ⲓ">>, <<"Ⲕ", "ⲕ">>, <<"Ⲗ", "ⲗ">>,
      <<"Ⲙ", "ⲙ">>, <<"Ⲛ", "ⲛ">>, <<"Ⲝ", "ⲝ">>, <<"Ⲟ", "ⲟ">>, <<"Ⲡ", "ⲡ">>, <<"Ⲣ", "ⲣ">>,
      <<"Ⲥ", "ⲥ">>, <<"Ⲧ", "ⲧ">>, <<"Ⲩ", "ⲩ">>, <<"Ⲫ", "ⲫ">>, <<"Ⲭ", "ⲭ">>, <<"Ⲯ", "ⲯ">>,
      <<"Ⲱ", "ⲱ">>, <<"Ⲳ", "ⲳ">>, <<"Ⲵ", "ⲵ">>, <<"Ⲷ", "ⲷ">>, <<"Ⲹ", "ⲹ">>, <<"Ⲻ", "ⲻ">>,
      <<"Ⲽ", "ⲽ">>, <<"Ⲿ", "ⲿ">>, <<"Ⳁ", "ⳁ">>, <<"Ⳃ", "ⳃ">>, <<"Ⳅ", "ⳅ">>, <<"Ⳇ", "ⳇ">>,
      <<"Ⳉ", "ⳉ">>, <<"Ⳋ", "ⳋ">>, <<"Ⳍ", "ⳍ">>, <<"Ⳏ", "ⳏ">>, <<"Ⳑ", "ⳑ">>, <<"Ⳓ", "ⳓ">>,
      <<"Ⳕ", "ⳕ">>, <<"Ⳗ", "ⳗ">>, <<"Ⳙ", "ⳙ">>, <<"Ⳛ", "ⳛ">>, <<"Ⳝ", "ⳝ">>, <<"Ⳟ", "ⳟ">>,
      <<"Ⳡ", "ⳡ">>, <<"Ⳣ", "ⳣ">>, <<"Ⳬ", "ⳬ">>, <<"Ⳮ", "ⳮ">>, <<"Ⳳ", "ⳳ">>, <<"Ꚁ", "ꚁ">>,
      <<"Ꚃ", "ꚃ">>, <<"Ꚅ", "ꚅ">>, <<"Ꚇ", "ꚇ">>, <<"Ꚉ", "ꚉ">>, <<"Ꚋ", "ꚋ">>, <<"Ꚍ", "ꚍ">>,
      <<"Ꚏ", "ꚏ">>, <<"Ꚑ", "ꚑ">>, <<"Ꚓ", "ꚓ">>, <<"Ꚕ", "ꚕ">>, <<"Ꚗ", "ꚗ">>, <<"Ꚙ", "ꚙ">>,
      <<"Ꚛ", "ꚛ">>, <<"Ꞁ", "ꞁ">>, <<"Ꞃ", "ꞃ">>, <<"Ꞅ", "ꞅ">>, <<"Ꞇ", "ꞇ">>, <<"Ꞌ", "ꞌ">>,
      <<"Ꞑ", "ꞑ">>, <<"Ꞓ", "ꞓ">>, <<"Ꞗ", "ꞗ">>, <<"Ꞙ", "ꞙ">>, <<"Ꞛ", "ꞛ">>, <<"Ꞝ", "ꞝ">>,
      <<"Ꞟ", "ꞟ">>, <<"Ꞡ", "ꞡ">>, <<"Ꞣ", "ꞣ">>, <<"Ꞥ", "ꞥ">>, <<"Ꞧ", "ꞧ">>, <<"Ꞩ", "ꞩ">>,
      <<"Ʞ", "ʞ">>, <<"Ʇ", "ʇ">>, <<"Ʝ", "ʝ">>, <<"Ꞵ", "ꞵ">>, <<"Ꞷ", "ꞷ">>, <<"Ꞹ", "ꞹ">>,
      <<"Ꞻ", "ꞻ">>, <<"Ꞽ", "ꞽ">>, <<"Ꞿ", "ꞿ">>, <<"Ꟁ", "ꟁ">>, <<"Ꟃ", "ꟃ">>, <<"Ꞔ", "ꞔ">>,
      <<"Ʂ", "ʂ">>, <<"Ᶎ", "ᶎ">>, <<"Ꟈ", "ꟈ">>, <<"Ꟊ", "ꟊ">>, <<"Ꟑ", "ꟑ">>, <<"Ꟗ", "ꟗ">>,
      <<"Ꟙ", "ꟙ">>, <<"Ꟶ", "ꟶ">> }

UpperOthers == {p[1] : p \in LowerPairs}

LowerMap == [c \in UpperOthers |-> (CHOOSE p \in LowerPairs : p[1] = c)[2]]

\* the capitals whose lowercase letter this module's strings cannot hold: the
\* letter is written "lower <capital>"
LowerOutside ==
    {       "Ɓ", "Ɔ", "Ɖ", "Ɗ", "Ə", "Ɛ", "Ɠ", "Ɣ", "Ɩ", "Ɨ", "Ɯ", "Ɲ", "Ɵ", "Ͻ", "Ͼ", "Ͽ",
      "Ⴀ", "Ⴁ", "Ⴂ", "Ⴃ", "Ⴄ", "Ⴅ", "Ⴆ", "Ⴇ", "Ⴈ", "Ⴉ", "Ⴊ", "Ⴋ", "Ⴌ", "Ⴍ", "Ⴎ", "Ⴏ",
      "Ⴐ", "Ⴑ", "Ⴒ", "Ⴓ", "Ⴔ", "Ⴕ", "Ⴖ", "Ⴗ", "Ⴘ", "Ⴙ", "Ⴚ", "Ⴛ", "Ⴜ", "Ⴝ", "Ⴞ", "Ⴟ",
      "Ⴠ", "Ⴡ", "Ⴢ", "Ⴣ", "Ⴤ", "Ⴥ", "Ⴧ", "Ⴭ", "Ꭰ", "Ꭱ", "Ꭲ", "Ꭳ", "Ꭴ", "Ꭵ", "Ꭶ", "Ꭷ",
      "Ꭸ", "Ꭹ", "Ꭺ", "Ꭻ", "Ꭼ", "Ꭽ", "Ꭾ", "Ꭿ", "Ὰ", "Ά", "Ὲ", "Έ", "Ὴ", "Ή", "Ὶ", "Ί",
      "Ὺ", "Ύ", "Ὸ", "Ό", "Ὼ", "Ώ", "Ɥ", "Ɦ", "Ɜ", "Ɡ", "Ɬ", "Ɪ", "Ꭓ" }

LowerChar(c) == IF \E i \in 1..26 : UpperLetters[i] = c
                THEN LowerLetters[CHOOSE i \in 1..26 : UpperLetters[i] = c]
                ELSE IF c \in UpperOthers THEN LowerMap[c]
                ELSE IF c \in LowerOutside THEN "lower " \o c
                ELSE c

\* the characters str.lower passes over when it looks for the letters around a
\* capital sigma (Unicode Case_Ignorable)
CaseIgnorable ==
    {       "'", ".", ":", "^", "¨", "­", "¯", "´", "·", "¸", "ʰ", "ʱ", "ʲ", "ʳ", "ʴ",
      "ʵ", "ʶ", "ʷ", "ʸ", "ʹ", "ʺ", "ʻ", "ʼ", "ʽ", "ʾ", "ʿ", "ˀ", "ˁ", "˂", "˃", "˄",
      "˅", "ˆ", "ˇ", "ˈ", "ˉ", "ˊ", "ˋ", "ˌ", "ˍ", "ˎ", "ˏ", "ː", "ˑ", "˒", "˓", "˔",
      "˕", "˖", "˗", "˘", "˙", "˚", "˛", "˜", "˝", "˞", "˟", "ˠ", "ˡ", "ˢ", "ˣ", "ˤ",
      "˥", "˦", "˧", "˨", "˩", "˪", "˫", "ˬ", "˭", "ˮ", "˯", "˰", "˱", "˲", "˳", "˴",
      "˵", "˶", "˷", "˸", "˹", "˺", "˻", "˼", "˽", "˾", "˿", "΄", "΅", "·", "҃", "҄",
      "҅", "҆", "҇", "҈", "҉", "֑", "֒", "֓", "֔", "֕", "֖", "֗", "֘", "֙", "֚", "֛",
      "֜", "֝", "֞", "֟", "֠", "֡", "֢", "֣", "֤", "֥", "֦", "֧", "֨", "֩", "֪", "֫",
      "֬", "֭", "֮", "֯", "ְ", "ֱ", "ֲ", "ֳ", "ִ", "ֵ", "ֶ", "ַ", "ָ", "ֹ", "ֺ", "ֻ",
      "ּ", "ֽ", "ֿ", "ׁ", "ׂ", "ׄ", "ׅ", "ׇ", "״", "ۖ", "ۗ", "ۘ", "ۙ", "ۚ", "ۛ", "ۜ",
      "۝", "۟", "۠", "ۡ", "ۢ", "ۣ", "ۤ", "ۥ", "ۦ", "ۧ", "ۨ", "۪", "۫", "۬", "ۭ", "ަ",
      "ާ", "ި", "ީ", "ު", "ޫ", "ެ", "ޭ", "ޮ", "ޯ", "ް", "߫", "߬", "߭", "߮", "߯", "߰",
      "߱", "߲", "߳", "ߴ", "ߵ", "ߺ", "߽", "࢈", "࢐", "࢑", "࢘", "࢙", "࢚", "࢛", "࢜", "࢝",
      "࢞", "࢟", "ࣉ", "࣊", "࣋", "࣌", "࣍", "࣎", "࣏", "࣐", "࣑", "࣒", "࣓", "ࣔ", "ࣕ", "ࣖ",
      "ࣗ", "ࣘ", "ࣙ", "ࣚ", "ࣛ", "ࣜ", "ࣝ", "ࣞ", "ࣟ", "࣠", "࣡", "࣢", "ࣣ", "ࣤ", "ࣥ", "ࣦ",
      "ࣧ", "ࣨ", "ࣩ", "࣪", "࣫", "࣬", "࣭", "࣮", "࣯", "ࣰ", "ࣱ", "ࣲ", "ࣳ", "ࣴ", "ࣵ", "ࣶ",
      "ࣷ", "ࣸ", "ࣹ", "ࣺ", "ࣻ", "ࣼ", "ࣽ", "ࣾ", "ࣿ", "ঁ", "়", "ু", "ূ", "ৃ", "ৄ", "্",
      "ৢ", "ৣ", "৾", "ઁ", "ં", "઼", "ુ", "ૂ", "ૃ", "ૄ", "ૅ", "ે", "ૈ", "્", "ૢ", "ૣ",
      "ૺ", "ૻ", "ૼ", "૽", "૾", "૿", "ஂ", "ீ", "்", "ಁ", "಼", "ಿ", "ೆ", "ೌ", "್", "ೢ",
      "ೣ", "ඁ", "්", "ි", "ී", "ු", "ූ", "ັ", "ິ", "ີ", "ຶ", "ື", "ຸ", "ູ", "຺", "ົ",
      "ຼ", "ໆ", "່", "້", "໊", "໋", "໌", "ໍ", "ྀ", "ཱྀ", "ྂ", "ྃ", "྄", "྆", "྇", "ྍ",
      "ྎ", "ྏ", "ྐ", "ྑ", "ྒ", "ྒྷ", "ྔ", "ྕ", "ྖ", "ྗ", "ྙ", "ྚ", "ྛ", "ྜ", "ྜྷ", "ྞ",
      "ྟ", "ྠ", "ྡ", "ྡྷ", "ྣ", "ྤ", "ྥ", "ྦ", "ྦྷ", "ྨ", "ྩ", "ྪ", "ྫ", "ྫྷ", "ྭ", "ྮ",
      "ྯ", "ྰ", "ྱ", "ྲ", "ླ", "ྴ", "ྵ", "ྶ", "ྷ", "ྸ", "ྐྵ", "ྺ", "ྻ", "ྼ", "࿆", "ႂ",
      "ႅ", "ႆ", "ႍ", "ႝ", "ჼ", "឴", "឵", "ិ", "ី", "ឹ", "ឺ", "ុ", "ូ", "ួ", "ំ", "៉",
      "៊", "់", "៌", "៍", "៎", "៏", "័", "៑", "្", "៓", "ៗ", "៝", "ᢅ", "ᢆ", "ᢩ", "ᪧ",
      "᪰", "᪱", "᪲", "᪳", "᪴", "᪵", "᪶", "᪷", "᪸", "᪹", "᪺", "᪻", "᪼", "᪽", "᪾", "ᪿ",
      "ᫀ", "᫁", "᫂", "᫃", "᫄", "᫅", "᫆", "᫇", "᫈", "᫉", "᫊", "᫋", "ᫌ", "ᫍ", "ᫎ", "ᮀ",
      "ᮁ", "ᮢ", "ᮣ", "ᮤ", "ᮥ", "ᮨ", "ᮩ", "᮫", "ᮬ", "ᮭ", "᯦", "ᯨ", "ᯩ", "ᯭ", "ᯯ", "ᯰ",
      "ᯱ", "᳐", "᳑", "᳒", "᳔", "᳕", "᳖", "᳗", "᳘", "᳙", "᳚", "᳛", "᳜", "᳝", "᳞", "᳟",
      "᳠", "᳢", "᳣", "᳤", "᳥", "᳦", "᳧", "᳨", "᳭", "᳴", "᳸", "᳹", "ᶛ", "ᶜ", "ᶝ", "ᶞ",
      "ᶟ", "ᶠ", "ᶡ", "ᶢ", "ᶣ", "ᶤ", "ᶥ", "ᶦ", "ᶧ", "ᶨ", "ᶩ", "ᶪ", "ᶫ", "ᶬ", "ᶭ", "ᶮ",
      "ᶯ", "ᶰ", "ᶱ", "ᶲ", "ᶳ", "ᶴ", "ᶵ", "ᶶ", "ᶷ", "ᶸ", "ᶹ", "ᶺ", "ᶻ", "ᶼ", "ᶽ", "ᶾ",
      "ᶿ", "᷀", "᷁", "᷂", "᷃", "᷄", "᷅", "᷆", "᷇", "᷈", "᷉", "᷊", "᷋", "᷌", "᷍", "᷎",
      "᷏", "᷐", "᷑", "᷒", "ᷓ", "ᷔ", "ᷕ", "ᷖ", "ᷗ", "ᷘ", "ᷙ", "ᷚ", "ᷛ", "ᷜ", "ᷝ", "ᷞ",
      "ᷟ", "ᷠ", "ᷡ", "ᷢ", "ᷣ", "ᷤ", "ᷥ", "ᷦ", "ᷧ", "ᷨ", "ᷩ", "ᷪ", "ᷫ", "ᷬ", "ᷭ", "ᷮ",
      "ᷯ", "ᷰ", "ᷱ", "ᷲ", "ᷳ", "ᷴ", "᷵", "᷶", "᷷", "᷸", "᷹", "᷺", "᷻", "᷼", "᷽", "᷾",
      "᷿", "᾽", "᾿", "῀", "῁", "῍", "῎", "῏", "῝", "῞", "῟", "῭", "΅", "`", "´", "῾",
      "ₐ", "ₑ", "ₒ", "ₓ", "ₔ", "ₕ", "ₖ", "ₗ", "ₘ", "ₙ", "ₚ", "ₛ", "ₜ", "⃐", "⃑", "⃒",
      "⃓", "⃔", "⃕", "⃖", "⃗", "⃘", "⃙", "⃚", "⃛", "⃜", "⃝", "⃞", "⃟", "⃠", "⃡", "⃢",
      "⃣", "⃤", "⃥", "⃦", "⃧", "⃨", "⃩", "⃪", "⃫", "⃬", "⃭", "⃮", "⃯", "⃰", "⳯", "⳰",
      "⳱", "ⷠ", "ⷡ", "ⷢ", "ⷣ", "ⷤ", "ⷥ", "ⷦ", "ⷧ", "ⷨ", "ⷩ", "ⷪ", "ⷫ", "ⷬ", "ⷭ", "ⷮ",
      "ⷯ", "ⷰ", "ⷱ", "ⷲ", "ⷳ", "ⷴ", "ⷵ", "ⷶ", "ⷷ", "ⷸ", "ⷹ", "ⷺ", "ⷻ", "ⷼ", "ⷽ", "ⷾ",
      "ⷿ", "゙", "゚", "゛", "゜", "ゝ", "ゞ", "ー", "ヽ", "ヾ", "ꓸ", "ꓹ", "ꓺ", "ꓻ", "ꓼ", "ꓽ",
      "ꚜ", "ꚝ", "ꚞ", "ꚟ", "꛰", "꛱", "ꞈ", "꞉", "꞊", "ꟲ", "ꟳ", "ꟴ", "ꟸ", "ꟹ", "꣄", "ꣅ",
      "꣠", "꣡", "꣢", "꣣", "꣤", "꣥", "꣦", "꣧", "꣨", "꣩", "꣪", "꣫", "꣬", "꣭", "꣮", "꣯",
      "꣰", "꣱", "ꣿ", "ꦀ", "ꦁ", "ꦂ", "꦳", "ꦶ", "ꦷ", "ꦸ", "ꦹ", "ꦼ", "ꦽ", "ꧏ", "ꧥ", "ꧦ",
      "ꪰ", "ꪲ", "ꪳ", "ꪴ", "ꪷ", "ꪸ", "ꪾ", "꪿", "꫁", "ꫝ", "ꫬ", "ꫭ", "ꫳ", "ꫴ", "꫶", "ꯥ",
      "ꯨ", "꯭", "﮲", "﮳", "﮴", "﮵", "﮶", "﮷", "﮸", "﮹", "﮺", "﮻", "﮼", "﮽", "﮾", "﮿",
      "﯀", "﯁", "﯂", "﻿", "ﾞ", "ﾟ", "￣", "￹", "￺", "￻" }

\* the other characters that are letters with a case (Unicode Cased)
CasedLetters ==
    {       "A", "B", "C", "D", "E", "F", "G", "H", "I", "J", "K", "L", "M", "N", "O", "P",
      "Q", "R", "S", "T", "U", "V", "W", "X", "Y", "Z", "a", "b", "c", "d", "e", "f",
      "g", "h", "i", "j", "k", "l", "m", "n", "o", "p", "q", "r", "s", "t", "u", "v",
      "w", "x", "y", "z", "ª", "µ", "º", "À", "Á", "Â", "Ã", "Ä", "Å", "Æ", "Ç", "È",
      "É", "Ê", "Ë", "Ì", "Í", "Î", "Ï", "Ð", "Ñ", "Ò", "Ó", "Ô", "Õ", "Ö", "Ø", "Ù",
      "Ú", "Û", "Ü", "Ý", "Þ", "ß", "à", "á", "â", "ã", "ä", "å", "æ", "ç", "è", "é",
      "ê", "ë", "ì", "í", "î", "ï", "ð", "ñ", "ò", "ó", "ô", "õ", "ö", "ø", "ù", "ú",
      "û", "ü", "ý", "þ", "ÿ", "ƀ", "Ɓ", "Ƃ", "ƃ", "Ƅ", "ƅ", "Ɔ", "Ƈ", "ƈ", "Ɖ", "Ɗ",
      "Ƌ", "ƌ", "ƍ", "Ǝ", "Ə", "Ɛ", "Ƒ", "ƒ", "Ɠ", "Ɣ", "ƕ", "Ɩ", "Ɨ", "Ƙ", "ƙ", "ƚ",
      "ƛ", "Ɯ", "Ɲ", "ƞ", "Ɵ", "Ơ", "ơ", "Ƣ", "ƣ", "Ƥ", "ƥ", "Ʀ", "Ƨ", "ƨ", "Ʃ", "ƪ",
      "ƫ", "Ƭ", "ƭ", "Ʈ", "Ư", "ư", "Ʊ", "Ʋ", "Ƴ", "ƴ", "Ƶ", "ƶ", "Ʒ", "Ƹ", "ƹ", "ƺ",
      "Ƽ", "ƽ", "ƾ", "ƿ", "Ǆ", "ǅ", "ǆ", "Ǉ", "ǈ", "ǉ", "Ǌ", "ǋ", "ǌ", "Ǎ", "ǎ", "Ǐ",
      "ǐ", "Ǒ", "ǒ", "Ǔ", "ǔ", "Ǖ", "ǖ", "Ǘ", "ǘ", "Ǚ", "ǚ", "Ǜ", "ǜ", "ǝ", "Ǟ", "ǟ",
      "Ǡ", "ǡ", "Ǣ", "ǣ", "Ǥ", "ǥ", "Ǧ", "ǧ", "Ǩ", "ǩ", "Ǫ", "ǫ", "Ǭ", "ǭ", "Ǯ", "ǯ",
      "ǰ", "Ǳ", "ǲ", "ǳ", "Ǵ", "ǵ", "Ƕ", "Ƿ", "Ǹ", "ǹ", "Ǻ", "ǻ", "Ǽ", "ǽ", "Ǿ", "ǿ",
      "ʀ", "ʁ", "ʂ", "ʃ", "ʄ", "ʅ", "ʆ", "ʇ", "ʈ", "ʉ", "ʊ", "ʋ", "ʌ", "ʍ", "ʎ", "ʏ",
      "ʐ", "ʑ", "ʒ", "ʓ", "ʕ", "ʖ", "ʗ", "ʘ", "ʙ", "ʚ", "ʛ", "ʜ", "ʝ", "ʞ", "ʟ", "ʠ",
      "ʡ", "ʢ", "ʣ", "ʤ", "ʥ", "ʦ", "ʧ", "ʨ", "ʩ", "ʪ", "ʫ", "ʬ", "ʭ", "ʮ", "ʯ", "Ά",
      "Έ", "Ή", "Ί", "Ό", "Ύ", "Ώ", "ΐ", "Α", "Β", "Γ", "Δ", "Ε", "Ζ", "Η", "Θ", "Ι",
      "Κ", "Λ", "Μ", "Ν", "Ξ", "Ο", "Π", "Ρ", "Σ", "Τ", "Υ", "Φ", "Χ", "Ψ", "Ω", "Ϊ",
      "Ϋ", "ά", "έ", "ή", "ί", "ΰ", "α", "β", "γ", "δ", "ε", "ζ", "η", "θ", "ι", "κ",
      "λ", "μ", "ν", "ξ", "ο", "π", "ρ", "ς", "σ", "τ", "υ", "φ", "χ", "ψ", "ω", "ϊ",
      "ϋ", "ό", "ύ", "ώ", "Ϗ", "ϐ", "ϑ", "ϒ", "ϓ", "ϔ", "ϕ", "ϖ", "ϗ", "Ϙ", "ϙ", "Ϛ",
      "ϛ", "Ϝ", "ϝ", "Ϟ", "ϟ", "Ϡ", "ϡ", "Ϣ", "ϣ", "Ϥ", "ϥ", "Ϧ", "ϧ", "Ϩ", "ϩ", "Ϫ",
      "ϫ", "Ϭ", "ϭ", "Ϯ", "ϯ", "ϰ", "ϱ", "ϲ", "ϳ", "ϴ", "ϵ", "Ϸ", "ϸ", "Ϲ", "Ϻ", "ϻ",
      "ϼ", "Ͻ", "Ͼ", "Ͽ", "Ҁ", "ҁ", "Ҋ", "ҋ", "Ҍ", "ҍ", "Ҏ", "ҏ", "Ґ", "ґ", "Ғ", "ғ",
      "Ҕ", "ҕ", "Җ", "җ", "Ҙ", "ҙ", "Қ", "қ", "Ҝ", "ҝ", "Ҟ", "ҟ", "Ҡ", "ҡ", "Ң", "ң",
      "Ҥ", "ҥ", "Ҧ", "ҧ", "Ҩ", "ҩ", "Ҫ", "ҫ", "Ҭ", "ҭ", "Ү", "ү", "Ұ", "ұ", "Ҳ", "ҳ",
      "Ҵ", "ҵ", "Ҷ", "ҷ", "Ҹ", "ҹ", "Һ", "һ", "Ҽ", "ҽ", "Ҿ", "ҿ", "Ӏ", "Ӂ", "ӂ", "Ӄ",
      "ӄ", "Ӆ", "ӆ", "Ӈ", "ӈ", "Ӊ", "ӊ", "Ӌ", "ӌ", "Ӎ", "ӎ", "ӏ", "Ӑ", "ӑ", "Ӓ", "ӓ",
      "Ӕ", "ӕ", "Ӗ", "ӗ", "Ә", "ә", "Ӛ", "ӛ", "Ӝ", "ӝ", "Ӟ", "ӟ", "Ӡ", "ӡ", "Ӣ", "ӣ",
      "Ӥ", "ӥ", "Ӧ", "ӧ", "Ө", "ө", "Ӫ", "ӫ", "Ӭ", "ӭ", "Ӯ", "ӯ", "Ӱ", "ӱ", "Ӳ", "ӳ",
      "Ӵ", "ӵ", "Ӷ", "ӷ", "Ӹ", "ӹ", "Ӻ", "ӻ", "Ӽ", "ӽ", "Ӿ", "ӿ", "ր", "ց", "ւ", "փ",
      "ք", "օ", "ֆ", "և", "ֈ", "Ⴀ", "Ⴁ", "Ⴂ", "Ⴃ", "Ⴄ", "Ⴅ", "Ⴆ", "Ⴇ", "Ⴈ", "Ⴉ", "Ⴊ",
      "Ⴋ", "Ⴌ", "Ⴍ", "Ⴎ", "Ⴏ", "Ⴐ", "Ⴑ", "Ⴒ", "Ⴓ", "Ⴔ", "Ⴕ", "Ⴖ", "Ⴗ", "Ⴘ", "Ⴙ", "Ⴚ",
      "Ⴛ", "Ⴜ", "Ⴝ", "Ⴞ", "Ⴟ", "Ⴠ", "Ⴡ", "Ⴢ", "Ⴣ", "Ⴤ", "Ⴥ", "Ⴧ", "Ⴭ", "ა", "ბ", "გ",
      "დ", "ე", "ვ", "ზ", "თ", "ი", "კ", "ლ", "მ", "ნ", "ო", "პ", "ჟ", "რ", "ს", "ტ",
      "უ", "ფ", "ქ", "ღ", "ყ", "შ", "ჩ", "ც", "ძ", "წ", "ჭ", "ხ", "ჯ", "ჰ", "ჱ", "ჲ",
      "ჳ", "ჴ", "ჵ", "ჶ", "ჷ", "ჸ", "ჹ", "ჺ", "ჽ", "ჾ", "ჿ", "Ꭰ", "Ꭱ", "Ꭲ", "Ꭳ", "Ꭴ",
      "Ꭵ", "Ꭶ", "Ꭷ", "Ꭸ", "Ꭹ", "Ꭺ", "Ꭻ", "Ꭼ", "Ꭽ", "Ꭾ", "Ꭿ", "Ꮀ", "Ꮁ", "Ꮂ", "Ꮃ", "Ꮄ",
      "Ꮅ", "Ꮆ", "Ꮇ", "Ꮈ", "Ꮉ", "Ꮊ", "Ꮋ", "Ꮌ", "Ꮍ", "Ꮎ", "Ꮏ", "Ꮐ", "Ꮑ", "Ꮒ", "Ꮓ", "Ꮔ",
      "Ꮕ", "Ꮖ", "Ꮗ", "Ꮘ", "Ꮙ", "Ꮚ", "Ꮛ", "Ꮜ", "Ꮝ", "Ꮞ", "Ꮟ", "Ꮠ", "Ꮡ", "Ꮢ", "Ꮣ", "Ꮤ",
      "Ꮥ", "Ꮦ", "Ꮧ", "Ꮨ", "Ꮩ", "Ꮪ", "Ꮫ", "Ꮬ", "Ꮭ", "Ꮮ", "Ꮯ", "Ꮰ", "Ꮱ", "Ꮲ", "Ꮳ", "Ꮴ",
      "Ꮵ", "Ꮶ", "Ꮷ", "Ꮸ", "Ꮹ", "Ꮺ", "Ꮻ", "Ꮼ", "Ꮽ", "Ꮾ", "Ꮿ", "Ᏸ", "Ᏹ", "Ᏺ", "Ᏻ", "Ᏼ",
      "Ᏽ", "ᏸ", "ᏹ", "ᏺ", "ᏻ", "ᏼ", "ᏽ", "ᲀ", "ᲁ", "ᲂ", "ᲃ", "ᲄ", "ᲅ", "ᲆ", "ᲇ", "ᲈ",
      "Ა", "Ბ", "Გ", "Დ", "Ე", "Ვ", "Ზ", "Თ", "Ი", "Კ", "Ლ", "Მ", "Ნ", "Ო", "Პ", "Ჟ",
      "Რ", "Ს", "Ტ", "Უ", "Ფ", "Ქ", "Ღ", "Ყ", "Შ", "Ჩ", "Ც", "Ძ", "Წ", "Ჭ", "Ხ", "Ჯ",
      "Ჰ", "Ჱ", "Ჲ", "Ჳ", "Ჴ", "Ჵ", "Ჶ", "Ჷ", "Ჸ", "Ჹ", "Ჺ", "Ჽ", "Ჾ", "Ჿ", "ᶀ", "ᶁ",
      "ᶂ", "ᶃ", "ᶄ", "ᶅ", "ᶆ", "ᶇ", "ᶈ", "ᶉ", "ᶊ", "ᶋ", "ᶌ", "ᶍ", "ᶎ", "ᶏ", "ᶐ", "ᶑ",
      "ᶒ", "ᶓ", "ᶔ", "ᶕ", "ᶖ", "ᶗ", "ᶘ", "ᶙ", "ᶚ", "Ẁ", "ẁ", "Ẃ", "ẃ", "Ẅ", "ẅ", "Ẇ",
      "ẇ", "Ẉ", "ẉ", "Ẋ", "ẋ", "Ẍ", "ẍ", "Ẏ", "ẏ", "Ẑ", "ẑ", "Ẓ", "ẓ", "Ẕ", "ẕ", "ẖ",
      "ẗ", "ẘ", "ẙ", "ẚ", "ẛ", "ẜ", "ẝ", "ẞ", "ẟ", "Ạ", "ạ", "Ả", "ả", "Ấ", "ấ", "Ầ",
      "ầ", "Ẩ", "ẩ", "Ẫ", "ẫ", "Ậ", "ậ", "Ắ", "ắ", "Ằ", "ằ", "Ẳ", "ẳ", "Ẵ", "ẵ", "Ặ",
      "ặ", "Ẹ", "ẹ", "Ẻ", "ẻ", "Ẽ", "ẽ", "Ế", "ế", "Ề", "ề", "Ể", "ể", "Ễ", "ễ", "Ệ",
      "ệ", "Ỉ", "ỉ", "Ị", "ị", "Ọ", "ọ", "Ỏ", "ỏ", "Ố", "ố", "Ồ", "ồ", "Ổ", "ổ", "Ỗ",
      "ỗ", "Ộ", "ộ", "Ớ", "ớ", "Ờ", "ờ", "Ở", "ở", "Ỡ", "ỡ", "Ợ", "ợ", "Ụ", "ụ", "Ủ",
      "ủ", "Ứ", "ứ", "Ừ", "ừ", "Ử", "ử", "Ữ", "ữ", "Ự", "ự", "Ỳ", "ỳ", "Ỵ", "ỵ", "Ỷ",
      "ỷ", "Ỹ", "ỹ", "Ỻ", "ỻ", "Ỽ", "ỽ", "Ỿ", "ỿ", "ᾀ", "ᾁ", "ᾂ", "ᾃ", "ᾄ", "ᾅ", "ᾆ",
      "ᾇ", "ᾈ", "ᾉ", "ᾊ", "ᾋ", "ᾌ", "ᾍ", "ᾎ", "ᾏ", "ᾐ", "ᾑ", "ᾒ", "ᾓ", "ᾔ", "ᾕ", "ᾖ",
      "ᾗ", "ᾘ", "ᾙ", "ᾚ", "ᾛ", "ᾜ", "ᾝ", "ᾞ", "ᾟ", "ᾠ", "ᾡ", "ᾢ", "ᾣ", "ᾤ", "ᾥ", "ᾦ",
      "ᾧ", "ᾨ", "ᾩ", "ᾪ", "ᾫ", "ᾬ", "ᾭ", "ᾮ", "ᾯ", "ᾰ", "ᾱ", "ᾲ", "ᾳ", "ᾴ", "ᾶ", "ᾷ",
      "Ᾰ", "Ᾱ", "Ὰ", "Ά", "ᾼ", "ι", "ῂ", "ῃ", "ῄ", "ῆ", "ῇ", "Ὲ", "Έ", "Ὴ", "Ή", "ῌ",
      "ῐ", "ῑ", "ῒ", "ΐ", "ῖ", "ῗ", "Ῐ", "Ῑ", "Ὶ", "Ί", "ῠ", "ῡ", "ῢ", "ΰ", "ῤ", "ῥ",
      "ῦ", "ῧ", "Ῠ", "Ῡ", "Ὺ", "Ύ", "Ῥ", "ῲ", "ῳ", "ῴ", "ῶ", "ῷ", "Ὸ", "Ό", "Ὼ", "Ώ",
      "ῼ", "Ↄ", "ↄ", "Ⓐ", "Ⓑ", "Ⓒ", "Ⓓ", "Ⓔ", "Ⓕ", "Ⓖ", "Ⓗ", "Ⓘ", "Ⓙ", "Ⓚ", "Ⓛ", "Ⓜ",
      "Ⓝ", "Ⓞ", "Ⓟ", "Ⓠ", "Ⓡ", "Ⓢ", "Ⓣ", "Ⓤ", "Ⓥ", "Ⓦ", "Ⓧ", "Ⓨ", "Ⓩ", "ⓐ", "ⓑ", "ⓒ",
      "ⓓ", "ⓔ", "ⓕ", "ⓖ", "ⓗ", "ⓘ", "ⓙ", "ⓚ", "ⓛ", "ⓜ", "ⓝ", "ⓞ", "ⓟ", "ⓠ", "ⓡ", "ⓢ",
      "ⓣ", "ⓤ", "ⓥ", "ⓦ", "ⓧ", "ⓨ", "ⓩ", "Ⲁ", "ⲁ", "Ⲃ", "ⲃ", "Ⲅ", "ⲅ", "Ⲇ", "ⲇ", "Ⲉ",
      "ⲉ", "Ⲋ", "ⲋ", "Ⲍ", "ⲍ", "Ⲏ", "ⲏ", "Ⲑ", "ⲑ", "Ⲓ", "ⲓ", "Ⲕ", "ⲕ", "Ⲗ", "ⲗ", "Ⲙ",
      "ⲙ", "Ⲛ", "ⲛ", "Ⲝ", "ⲝ", "Ⲟ", "ⲟ", "Ⲡ", "ⲡ", "Ⲣ", "ⲣ", "Ⲥ", "ⲥ", "Ⲧ", "ⲧ", "Ⲩ",
      "ⲩ", "Ⲫ", "ⲫ", "Ⲭ", "ⲭ", "Ⲯ", "ⲯ", "Ⲱ", "ⲱ", "Ⲳ", "ⲳ", "Ⲵ", "ⲵ", "Ⲷ", "ⲷ", "Ⲹ",
      "ⲹ", "Ⲻ", "ⲻ", "Ⲽ", "ⲽ", "Ⲿ", "ⲿ", "Ⳁ", "ⳁ", "Ⳃ", "ⳃ", "Ⳅ", "ⳅ", "Ⳇ", "ⳇ", "Ⳉ",
      "ⳉ", "Ⳋ", "ⳋ", "Ⳍ", "ⳍ", "Ⳏ", "ⳏ", "Ⳑ", "ⳑ", "Ⳓ", "ⳓ", "Ⳕ", "ⳕ", "Ⳗ", "ⳗ", "Ⳙ",
      "ⳙ", "Ⳛ", "ⳛ", "Ⳝ", "ⳝ", "Ⳟ", "ⳟ", "Ⳡ", "ⳡ", "Ⳣ", "ⳣ", "ⳤ", "Ⳬ", "ⳬ", "Ⳮ", "ⳮ",
      "Ⳳ", "ⳳ", "Ꚁ", "ꚁ", "Ꚃ", "ꚃ", "Ꚅ", "ꚅ", "Ꚇ", "ꚇ", "Ꚉ", "ꚉ", "Ꚋ", "ꚋ", "Ꚍ", "ꚍ",
      "Ꚏ", "ꚏ", "Ꚑ", "ꚑ", "Ꚓ", "ꚓ", "Ꚕ", "ꚕ", "Ꚗ", "ꚗ", "Ꚙ", "ꚙ", "Ꚛ", "ꚛ", "Ꞁ", "ꞁ",
      "Ꞃ", "ꞃ", "Ꞅ", "ꞅ", "Ꞇ", "ꞇ", "Ꞌ", "ꞌ", "Ɥ", "ꞎ", "Ꞑ", "ꞑ", "Ꞓ", "ꞓ", "ꞔ", "ꞕ",
      "Ꞗ", "ꞗ", "Ꞙ", "ꞙ", "Ꞛ", "ꞛ", "Ꞝ", "ꞝ", "Ꞟ", "ꞟ", "Ꞡ", "ꞡ", "Ꞣ", "ꞣ", "Ꞥ", "ꞥ",
      "Ꞧ", "ꞧ", "Ꞩ", "ꞩ", "Ɦ", "Ɜ", "Ɡ", "Ɬ", "Ɪ", "ꞯ", "Ʞ", "Ʇ", "Ʝ", "Ꭓ", "Ꞵ", "ꞵ",
      "Ꞷ", "ꞷ", "Ꞹ", "ꞹ", "Ꞻ", "ꞻ", "Ꞽ", "ꞽ", "Ꞿ", "ꞿ", "Ꟁ", "ꟁ", "Ꟃ", "ꟃ", "Ꞔ", "Ʂ",
      "Ᶎ", "Ꟈ", "ꟈ", "Ꟊ", "ꟊ", "Ꟑ", "ꟑ", "ꟓ", "ꟕ", "Ꟗ", "ꟗ", "Ꟙ", "ꟙ", "Ꟶ", "ꟶ", "ꟺ",
      "ꮀ", "ꮁ", "ꮂ", "ꮃ", "ꮄ", "ꮅ", "ꮆ", "ꮇ", "ꮈ", "ꮉ", "ꮊ", "ꮋ", "ꮌ", "ꮍ", "ꮎ", "ꮏ",
      "ꮐ", "ꮑ", "ꮒ", "ꮓ", "ꮔ", "ꮕ", "ꮖ", "ꮗ", "ꮘ", "ꮙ", "ꮚ", "ꮛ", "ꮜ", "ꮝ", "ꮞ", "ꮟ",
      "ꮠ", "ꮡ", "ꮢ", "ꮣ", "ꮤ", "ꮥ", "ꮦ", "ꮧ", "ꮨ", "ꮩ", "ꮪ", "ꮫ", "ꮬ", "ꮭ", "ꮮ", "ꮯ",
      "ꮰ", "ꮱ", "ꮲ", "ꮳ", "ꮴ", "ꮵ", "ꮶ", "ꮷ", "ꮸ", "ꮹ", "ꮺ", "ꮻ", "ꮼ", "ꮽ", "ꮾ", "ꮿ" }

\* Final_Sigma: a cased letter before the sigma and none after it, the
\* case-ignorable characters between them passed over
FinalSigma(s, i) ==
    /\ \E j \in 1..(i - 1) :
          /\ s[j] \in CasedLetters
          /\ \A k \in (j + 1)..(i - 1) : s[k] \in CaseIgnorable
    /\ ~\E j \in (i + 1)..Len(s) :
          /\ s[j] \in CasedLetters
          /\ \A k \in (i + 1)..(j - 1) : s[k] \in CaseIgnorable

\* str.lower: letter by letter, but a capital sigma in Final_Sigma position
\* becomes the final small sigma
lower(s) == [i \in 1..Len(s) |->
               IF s[i] = "Σ" /\ FinalSigma(s, i) THEN "ς" ELSE LowerChar(s[i])]

IMAGE_EXTENSIONS ==
    { <<".", "j", "p", "g">>, <<".", "j", "p", "e", "g">>, <<".", "p", "n", "g">>,
      <<".", "t", "i", "f", "f">>, <<".", "t", "i", "f">>,
      <<".", "c", "r", "2">>, <<".", "c", "r", "3">>, <<".", "n", "e", "f">>,
      <<".", "a", "r", "w">>, <<".", "d", "n", "g">>, <<".", "o", "r", "f">>,
      <<".", "r", "w", "2">>, <<".", "p", "e", "f">>, <<".", "s", "r", "w">>,
      <<".", "r", "a", "f">> }

is_image_file(name) == lower(splitext(name)[2]) \in IMAGE_EXTENSIONS

\* ------------------------------------------------------------------ parse_filename_date

\* ^(\d{4})-(\d{2})-(\d{2})[\s_](\d{2})[-.](\d{2})[-.](\d{2})
MatchPattern1(b) ==
    /\ Len(b) >= 19
    /\ AllDigits(b, 1, 4) /\ b[5] = "-" /\ AllDigits(b, 6, 7) /\ b[8] = "-"
    /\ AllDigits(b, 9, 10) /\ b[11] \in WhiteSpace \cup {"_"}
    /\ AllDigits(b, 12, 13) /\ b[14] \in {"-", "."}
    /\ AllDigits(b, 15, 16) /\ b[17] \in {"-", "."}
    /\ AllDigits(b, 18, 19)

\* ^(\d{4})(\d{2})(\d{2})_(\d{2})(\d{2})(\d{2})
MatchPattern2(b) ==
    /\ Len(b) >= 15
    /\ AllDigits(b, 1, 8) /\ b[9] = "_" /\ AllDigits(b, 10, 15)

\* ^(\d{4})-(\d{2})-(\d{2})$   ($ also matches before a final newline)
MatchPattern3(b) ==
    /\ Len(b) = 10 \/ (Len(b) = 11 /\ b[11] = "\n")
    /\ AllDigits(b, 1, 4) /\ b[5] = "-" /\ AllDigits(b, 6, 7) /\ b[8] = "-"
    /\ AllDigits(b, 9, 10)

Field(b, from, to) == ToInt(SubSeq(b, from, to))

\* datetime.datetime(...) in a try block: the date, or None on ValueError
TryDate(y, m, d, h, mi, s) ==
    IF ValidDate(y, m, d, h, mi, s) THEN Date(y, m, d, h, mi, s) ELSE None

Rule1(b) == IF MatchPattern1(b)
            THEN TryDate(Field(b, 1, 4), Field(b, 6, 7), Field(b, 9, 10),
                         Field(b, 12, 13), Field(b, 15, 16), Field(b, 18, 19))
            ELSE None

Rule2(b) == IF MatchPattern2(b)
            THEN TryDate(Field(b, 1, 4), Field(b, 5, 6), Field(b, 7, 8),
                         Field(b, 10, 11), Field(b, 12, 13), Field(b, 14, 15))
            ELSE None

Rule3(b) == IF MatchPattern3(b)
            THEN TryDate(Field(b, 1, 4), Field(b, 6, 7), Field(b, 9, 10), 0, 0, 0)
            ELSE None

\* The argument is the file's name (os.path.basename of the path).
parse_filename_date(name) ==
    LET basename == splitext(name)[1]
    IN  IF Rule1(basename) # None THEN Rule1(basename)
        ELSE IF Rule2(basename) # None THEN Rule2(basename)
        ELSE Rule3(basename)

\* ------------------------------------------------------------------ check_mismatch

DefaultTolerance == 2

HasMismatch_inclusive(filename_date, exif_date, tolerance_seconds) ==
    Abs(TotalSeconds(filename_date, exif_date)) >= tolerance_seconds

HasMismatch(filename_date, exif_date, tolerance_seconds) ==
    Abs(TotalSeconds(filename_date, exif_date)) > tolerance_seconds

\* has_mismatch is None, True or False
Tri(b) == IF b THEN "True" ELSE "False"

\* exif is what read_date_taken returns for the file: a date or None
check_mismatch(name, exif, tolerance_seconds) ==
    LET filename_date == parse_filename_date(name)
    IN  IF filename_date = None \/ exif = None
        THEN <<"None", filename_date, exif>>
        ELSE <<Tri(HasMismatch(filename_date, exif, tolerance_seconds)), filename_date, exif>>

\* ------------------------------------------------------------------ the filesystem

TopDir == "top"
SubDir == "sub"

\* the name of the subdirectory inside the top directory
SubDirName == <<"s", "u", "b">>

Path(form, dir, name) == [form |-> form, dir |-> dir, name |-> name]

\* the path of the top directory itself
DirPath(form) == Path(form, TopDir, <<>>)

\* the path of the subdirectory, as the entry "sub" of the top directory
SubDirPath(form) == Path(form, TopDir, SubDirName)

\* os.path.abspath: a relative path string becomes absolute; an absolute one is kept
abspath(p) == Path("abs", p.dir, p.name)

\* os.path.join(directory, name): the form of the directory string is kept. The
\* subdirectory may be written as the entry "sub" of the top directory.
join(dirpath, name) ==
    IF dirpath.dir = TopDir /\ dirpath.name = SubDirName
    THEN Path(dirpath.form, SubDir, name)
    ELSE Path(dirpath.form, dirpath.dir, name)

\* os.path.dirname of a file's path
dirname(p) == Path(p.form, p.dir, <<>>)

IdsAt(fs, p) == {id \in DOMAIN fs : fs[id].dir = p.dir /\ fs[id].name = p.name}

isfile(fs, p) == IdsAt(fs, p) # {}

isdir(fs, p) == p.name = <<>> \/ (p.dir = TopDir /\ p.name = SubDirName)

exists(fs, p) == isfile(fs, p) \/ isdir(fs, p)

FileAt(fs, p) == CHOOSE id \in IdsAt(fs, p) : TRUE

Restrict(f, S) == [x \in S |-> f[x]]

\* os.rename(src, dst) within one directory. Renaming a file onto itself does
\* nothing and succeeds, whatever the permissions. Otherwise it raises OSError,
\* changing nothing, when dst is a directory, when the process may not move the
\* source or when it may not replace the file at dst; else the source takes
\* the name and a file at dst is replaced. The result tells whether the move
\* succeeded and gives the filesystem after it.
os_rename(fs, src, dst) ==
    LET id == FileAt(fs, src)
        replaced == IdsAt(fs, dst) \ {id}
        kept == DOMAIN fs \ replaced
    IN  IF id \in IdsAt(fs, dst) THEN [ok |-> TRUE, files |-> fs]
        ELSE IF isdir(fs, dst) \/ ~fs[id].movable \/ \E x \in replaced : ~fs[x].movable
        THEN [ok |-> FALSE, files |-> fs]
        ELSE [ok |-> TRUE,
              files |-> [x \in kept |-> IF x = id THEN [fs[x] EXCEPT !.name = dst.name]
                                                  ELSE fs[x]]]

\* ------------------------------------------------------------------ get_unique_filename

CounterLimit == 9999

CounterName(base_name, counter, extension) ==
    base_name \o <<"_">> \o ZeroPad(counter, 3) \o extension

\* the while loop, from the given counter value on: the first free path, or
\* None when the loop raises "Too many files with same timestamp"
RECURSIVE CounterLoop(_, _, _, _, _)
CounterLoop(fs, directory, base_name, extension, counter) ==
    LET new_path == join(directory, CounterName(base_name, counter, extension))
    IN  IF ~exists(fs, new_path) THEN new_path
        ELSE IF counter + 1 > CounterLimit THEN None
        ELSE CounterLoop(fs, directory, base_name, extension, counter + 1)

get_unique_filename_from2(fs, directory, base_name, extension) ==
    LET new_path == join(directory, base_name \o extension)
    IN  IF ~exists(fs, new_path) THEN new_path
        ELSE CounterLoop(fs, directory, base_name, extension, 2)

get_unique_filename(fs, directory, base_name, extension) ==
    LET new_path == join(directory, base_name \o extension)
    IN  IF ~exists(fs, new_path) THEN new_path
        ELSE CounterLoop(fs, directory, base_name, extension, 1)

\* ------------------------------------------------------------------ log_rename

LogName == <<"r", "e", "n", "a", "m", "e", "_", "l", "o", "g", ".", "j", "s", "o", "n">>

\* main: rename_log.json in the target directory, or beside the target file.
\* The directories are there from the start to the end of a run, so that
\* os.path.isdir(target_path) has in every state the value main saw.
log_file_path(target) ==
    IF target.name = <<>> \/ (target.dir = TopDir /\ target.name = SubDirName)
    THEN join(target, LogName)
    ELSE join(dirname(target), LogName)

\* json.load of the log file: its list of entries ([] for a file that holds none)
ReadLog(fs, target) ==
    LET lp == log_file_path(target)
    IN  IF isfile(fs, lp) THEN fs[FileAt(fs, lp)].content ELSE <<>>

LogEntry(original_path, new_path) ==
    [original |-> abspath(original_path), renamed |-> abspath(new_path)]

\* The log is read, the entry appended, and the file written back (created when
\* it is missing); writing sets the file's modification time to now. The entry's
\* "timestamp" field is not modelled.
log_rename(fs, nid, opts, target, original_path, new_path, now) ==
    LET lp == log_file_path(target)
        log_data == ReadLog(fs, target) \o <<LogEntry(original_path, new_path)>>
    IN  IF ~opts.log_mode THEN fs
        ELSE IF isfile(fs, lp)
        THEN [fs EXCEPT ![FileAt(fs, lp)].content = log_data,
                        ![FileAt(fs, lp)].mtime = now]
        ELSE [x \in DOMAIN fs \cup {nid} |->
                IF x = nid
                THEN [dir |-> lp.dir, name |-> lp.name, mtime |-> now, exif |-> None,
                      movable |-> TRUE, content |-> log_data]
                ELSE fs[x]]

\* ------------------------------------------------------------------ rename_file_by_date

ScriptName == <<"f", "i", "l", "e", "r", "e", "n", "a", "m", "e", ".", "p", "y">>

\* os.path.abspath(__file__): the script lies in the top directory
script_path == Path("abs", TopDir, ScriptName)

\* the comparison of the normalized argument with the script's absolute path
IsScript(filepath) == filepath = script_path

read_date_taken_or_mtime(fs, filepath) ==
    IF fs[FileAt(fs, filepath)].exif = None THEN fs[FileAt(fs, filepath)].mtime
    ELSE fs[FileAt(fs, filepath)].exif

\* read_date_taken: what the metadata decoders find in the file, a date or None
read_date_taken(fs, filepath) == fs[FileAt(fs, filepath)].exif

\* datetime.fromtimestamp(os.path.getmtime(filepath))
ModifiedDate(fs, filepath) == fs[FileAt(fs, filepath)].mtime

StrictCollision_never(fs, new_path, filepath) == FALSE

\* strict mode: a file exists at the candidate path and it is not the source
StrictCollision(fs, new_path, filepath) == exists(fs, new_path) /\ new_path # filepath

Result(fs, outcome, target_date, new_path) ==
    [files |-> fs, outcome |-> outcome, target_date |-> target_date, new_path |-> new_path]

Perform_always(fs, nid, opts, target, filepath, target_date, new_path, now) ==
    LET moved == os_rename(fs, filepath, new_path)
    IN  IF ~moved.ok THEN Result(fs, "move-failed", target_date, new_path)
        ELSE Result(log_rename(moved.files, nid, opts, target, filepath, new_path, now),
                    "renamed", target_date, new_path)

\* "Perform or preview rename": print the preview in dry-run mode, otherwise
\* os.rename and then log_rename
Perform(fs, nid, opts, target, filepath, target_date, new_path, now) ==
    IF opts.dry_run_mode THEN Result(fs, "preview", target_date, new_path)
    ELSE LET moved == os_rename(fs, filepath, new_path)
         IN  IF ~moved.ok THEN Result(fs, "move-failed", target_date, new_path)
             ELSE Result(log_rename(moved.files, nid, opts, target, filepath, new_path, now),
                         "renamed", target_date, new_path)

\* from "Create new filename" on, once the target date is known
RenameTo(fs, nid, opts, target, filepath, target_date, now) ==
    LET directory == dirname(filepath)
        extension == splitext(filepath.name)[2]
        base_name == strftime(target_date)
        new_path  == IF opts.safe_mode
                     THEN get_unique_filename(fs, directory, base_name, extension)
                     ELSE join(directory, base_name \o extension)
    IN  IF new_path = None THEN Result(fs, "exhausted", target_date, None)
        ELSE IF ~opts.safe_mode /\ StrictCollision(fs, new_path, filepath)
        THEN Result(fs, "collision", target_date, new_path)
        ELSE IF new_path = filepath THEN Result(fs, "already-correct", target_date, new_path)
        ELSE Perform(fs, nid, opts, target, filepath, target_date, new_path, now)

rename_file_by_date(fs, nid, opts, target, filepath, use_metadata, now) ==
    IF IsScript(filepath) THEN Result(fs, "self", None, None)
    ELSE IF ~exists(fs, filepath) THEN Result(fs, "not-found", None, None)
    ELSE IF ~isfile(fs, filepath) THEN Result(fs, "not-a-file", None, None)
    ELSE IF use_metadata
    THEN IF ~is_image_file(filepath.name) THEN Result(fs, "non-image", None, None)
         ELSE IF read_date_taken(fs, filepath) = None
         THEN Result(fs, "no-metadata", None, None)
         ELSE RenameTo(fs, nid, opts, target, filepath, read_date_taken(fs, filepath), now)
    ELSE RenameTo(fs, nid, opts, target, filepath, ModifiedDate(fs, filepath), now)

\* the outcomes in which an exception leaves rename_file_by_date
Raised(outcome) == outcome \in {"exhausted", "move-failed"}

\* ------------------------------------------------------------------ check_and_report_file

check_and_report_file(fs, filepath) ==
    IF ~is_image_file(filepath.name) THEN FALSE
    ELSE check_mismatch(filepath.name, read_date_taken(fs, filepath), DefaultTolerance)[1] = "True"

\* ------------------------------------------------------------------ the files of the model

D1 == Date(2026, 1, 20, 14, 30, 0)
D2 == Date(2025, 12, 31, 23, 59, 59)
D3 == Date(2026, 10, 30, 9, 5, 7)

\* the wall-clock times at which the program may write its log
NowDates == {D3}

File(dir, name, mtime, exif, movable) ==
    [dir |-> dir, name |-> name, mtime |-> mtime, exif |-> exif, movable |-> movable,
     content |-> <<>>]

\* The files a run may start with: three images with the same modification
\* time, a file already named after its date, a text file, the script itself,
\* an image in the subdirectory and an image the process may not move.
Pool ==
    <<File(TopDir, <<"a", ".", "j", "p", "g">>, D1, D1, TRUE),
      File(TopDir, <<"b", ".", "j", "p", "g">>, D1, D1, TRUE),
      File(TopDir, <<"c", ".", "j", "p", "g">>, D1, None, TRUE),
      File(TopDir, strftime(D1) \o <<".", "j", "p", "g">>, D1, D1, TRUE),
      File(TopDir, <<"n", ".", "t", "x", "t">>, D2, None, TRUE),
      File(TopDir, ScriptName, D2, None, TRUE),
      File(SubDir, <<"d", ".", "J", "P", "G">>, D1, D2, TRUE),
      File(TopDir, <<"k", ".", "j", "p", "g">>, D2, D2, FALSE)>>

\* the inode of the script, when the run starts with it
ScriptId == CHOOSE i \in 1..Len(Pool) : Pool[i].name = ScriptName

\* the largest number of files a run starts with
MaxFiles == 3

\* the largest number of process_path operations of a run
MaxOps == 2

Forms == {"abs", "rel"}

Actions == {"modified", "metadata", "check"}

\* verbose_mode only selects what print_verbose prints: it is not part of the state
OptionNames == {"dry_run_mode", "safe_mode", "log_mode"}

\* ------------------------------------------------------------------ process_path

Listing(fs, dir) == {fs[id].name : id \in {x \in DOMAIN fs : fs[x].dir = dir}}

IdleWalk ==
    [action |-> "none", root |-> TopDir, todo |-> {}, pending |-> <<>>,
     files_processed |-> 0, mismatches_found |-> 0,
     n_files |-> 0, n_non_image |-> 0, renamed |-> 0, skipped |-> 0]

\* os.walk, top-down: a directory is listed when the walk reaches it
RECURSIVE Advance(_, _)
Advance(fs, w) ==
    IF w.todo # {} \/ w.pending = <<>> THEN w
    ELSE Advance(fs, [w EXCEPT !.root = Head(w.pending), !.pending = Tail(w.pending),
                               !.todo = Listing(fs, Head(w.pending))])

\* the directory a walk of the target starts in, and the directories below it
WalkRoot(target) == IF target = SubDirPath(target.form) THEN SubDir ELSE TopDir

WalkBelow(target) == IF WalkRoot(target) = TopDir THEN <<SubDir>> ELSE <<>>

\* the regular files of the tree the walk covers
TreeIds(fs, target) ==
    {id \in DOMAIN fs : WalkRoot(target) = TopDir \/ fs[id].dir = SubDir}

WalkDone(w) == w.todo = {} /\ w.pending = <<>>

NoCall == [n |-> 0, filepath |-> None, use_metadata |-> FALSE, target_date |-> None,
           new_path |-> None, outcome |-> "none"]

HistoryEntry(id, r, filepath) ==
    [id |-> id, old |-> filepath, new |-> r.new_path, target_date |-> r.target_date]

\* one call of rename_file_by_date and the bookkeeping of what it did
Call(filepath, use_metadata, now) ==
    \E r \in {rename_file_by_date(files, next_id, options, target_path, filepath,
                                 use_metadata, now)} :
        /\ files' = r.files
        /\ next_id' = IF next_id \in DOMAIN r.files THEN next_id + 1 ELSE next_id
        /\ last' = [n |-> last.n + 1, filepath |-> filepath, use_metadata |-> use_metadata,
                    target_date |-> r.target_date, new_path |-> r.new_path,
                    outcome |-> r.outcome]
        /\ history' = IF r.outcome = "renamed"
                      THEN Append(history, HistoryEntry(FileAt(files, filepath), r, filepath))
                      ELSE history

NoCallMade == UNCHANGED <<files, next_id, last, history>>

Skips == {"self", "not-found", "not-a-file", "non-image", "no-metadata", "collision",
          "already-correct"}

\* process_path on a path that does not exist
ProcessMissing(action) ==
    /\ pc = "menu" /\ ops < MaxOps
    /\ ~exists(files, target_path)
    /\ ops' = ops + 1
    /\ NoCallMade
    /\ UNCHANGED <<options, target_path, pc, walk, pin, pout>>

\* process_path on a single file
ProcessFile(action, now) ==
    /\ pc = "menu" /\ ops < MaxOps
    /\ isfile(files, target_path)
    /\ ops' = ops + 1
    /\ IF action = "check"
       THEN NoCallMade /\ pc' = pc
       ELSE /\ Call(target_path, action = "metadata", now)
            /\ pc' = IF Raised(last'.outcome) THEN "crashed" ELSE "menu"
    /\ walk' = IdleWalk
    /\ UNCHANGED <<options, target_path, pin, pout>>

\* process_path on a directory: the walk starts with the listing of the directory
ProcessDir(action) ==
    /\ pc = "menu" /\ ops < MaxOps
    /\ exists(files, target_path) /\ ~isfile(files, target_path)
    /\ ops' = ops + 1
    /\ walk' = Advance(files,
                 [IdleWalk EXCEPT !.action = action,
                                  !.root = WalkRoot(target_path),
                                  !.todo = Listing(files, WalkRoot(target_path)),
                                  !.pending = WalkBelow(target_path),
                                  !.n_files = Cardinality(TreeIds(files, target_path)),
                                  !.n_non_image =
                                      Cardinality({id \in TreeIds(files, target_path) :
                                                     ~is_image_file(files[id].name)})])
    /\ pc' = IF WalkDone(walk') THEN "menu" ELSE "walking"
    /\ NoCallMade
    /\ UNCHANGED <<options, target_path, pin, pout>>

\* "if action == 'metadata' and not is_image_file(full_path): continue"
SkippedByWalk(action, file) == action = "metadata" /\ ~is_image_file(file)

\* one iteration of "for file in files" (os.walk yields the names in any order)
WalkFile(file, now) ==
    /\ pc = "walking"
    /\ file \in walk.todo
    /\ LET full_path == Path(target_path.form, walk.root, file)
           rest == [walk EXCEPT !.todo = walk.todo \ {file}]
       IN  IF walk.action = "check"
           THEN /\ NoCallMade
                /\ walk' = Advance(files,
                     IF is_image_file(file)
                     THEN [rest EXCEPT !.files_processed = @ + 1,
                                       !.mismatches_found =
                                           IF check_and_report_file(files, full_path)
                                           THEN @ + 1 ELSE @]
                     ELSE rest)
                /\ pc' = IF WalkDone(walk') THEN "menu" ELSE "walking"
           ELSE IF SkippedByWalk(walk.action, file)
           THEN /\ NoCallMade
                /\ walk' = Advance(files, rest)
                /\ pc' = IF WalkDone(walk') THEN "menu" ELSE "walking"
           ELSE /\ Call(full_path, walk.action = "metadata", now)
                /\ IF Raised(last'.outcome)
                   THEN /\ walk' = rest
                        /\ pc' = "crashed"
                   ELSE /\ walk' = Advance(files',
                             [rest EXCEPT !.files_processed = @ + 1,
                                          !.renamed = IF last'.outcome = "renamed"
                                                      THEN @ + 1 ELSE @,
                                          !.skipped = IF last'.outcome \in Skips
                                                      THEN @ + 1 ELSE @])
                        /\ pc' = IF WalkDone(walk') THEN "menu" ELSE "walking"
    /\ UNCHANGED <<options, target_path, ops, pin, pout>>

\* ------------------------------------------------------------------ the program

\* toggle_settings_menu, from the interactive menu: one setting is flipped.
\* (Toggling verbose_mode changes nothing of the state.) The menu is left after
\* MaxOps operations.
ToggleSetting(o) ==
    /\ pc = "menu" /\ ops < MaxOps
    /\ options' = [options EXCEPT ![o] = ~@]
    /\ UNCHANGED <<files, next_id, target_path, pc, walk, ops, last, history, pin, pout>>

\* main: the options and the target path come from the command line
Init ==
    /\ \E S \in SUBSET (1..Len(Pool)) :
          /\ S # {} /\ Cardinality(S) <= MaxFiles
          /\ files = Restrict(Pool, S)
    /\ next_id = Len(Pool) + 1
    /\ options \in [OptionNames -> BOOLEAN]
    /\ \E form \in Forms :
          \/ target_path = DirPath(form)
          \/ target_path = SubDirPath(form)
          \/ \E id \in DOMAIN files : target_path = Path(form, files[id].dir, files[id].name)
    /\ pc = "menu"
    /\ walk = IdleWalk
    /\ ops = 0
    /\ last = NoCall
    /\ history = <<>>
    /\ pin = None
    /\ pout = None

Next ==
    \/ \E action \in Actions : ProcessMissing(action)
    \/ \E action \in Actions, now \in NowDates : ProcessFile(action, now)
    \/ \E action \in Actions : ProcessDir(action)
    \/ \E file \in walk.todo, now \in NowDates : WalkFile(file, now)
    \/ \E o \in OptionNames : ToggleSetting(o)

Spec == Init /\ [][Next]_vars

\* ------------------------------------------------------------------ properties of the rename engine

\* a step in which rename_file_by_date was called (last' tells on what)
Called == last'.n # last.n

ExtensionOf(p) == splitext(p.name)[2]

\* the canonical candidate path <dir>/<YYYY-MM-DD HH-MM-SS><ext> of a call
Candidate(l) == join(dirname(l.filepath), strftime(l.target_date) \o ExtensionOf(l.filepath))

\* C1: a file whose path already equals its canonical candidate path is skipped
\* as already-correct and the filesystem is left unchanged, with safe mode off
\* and with safe mode on.
C1_SelfRenameSuppressed ==
    [][(Called /\ last'.target_date # None /\ last'.filepath = Candidate(last'))
         => (last'.outcome = "already-correct" /\ files' = files)]_vars

\* the i-th name of the series B<ext>, B_001<ext>, B_002<ext>, ...
SeriesName(base_name, i, extension) ==
    IF i = 1 THEN base_name \o extension ELSE CounterName(base_name, i - 1, extension)

\* name is base_name<ext> or base_name_<counter><ext>
InSeries(name, base_name, extension) ==
    \/ name = base_name \o extension
    \/ LET from == Len(base_name) + 2
           to   == Len(name) - Len(extension)
       IN  /\ to - from >= 2
           /\ SubSeq(name, 1, Len(base_name)) = base_name
           /\ name[Len(base_name) + 1] = "_"
           /\ AllDigits(name, from, to)
           /\ SubSeq(name, to + 1, Len(name)) = extension

\* the completed renames of the files of directory dir with the given
\* extension that resolved to target date t, in the order they were performed
RenamesTo(dir, t, extension) ==
    SelectSeq(history, LAMBDA h : /\ h.old.dir = dir
                                  /\ h.target_date = t
                                  /\ ExtensionOf(h.old) = extension)

\* No file of the directory was named B<ext> or B_NNN<ext> to begin with:
\* no rename moved a file away from such a name, and the files that have such
\* a name now got it from the renames r.
SeriesWasFree(dir, t, extension, r) ==
    /\ \A i \in 1..Len(history) :
          history[i].old.dir = dir => ~InSeries(history[i].old.name, strftime(t), extension)
    /\ {files[id].name : id \in {x \in DOMAIN files :
                                    /\ files[x].dir = dir
                                    /\ InSeries(files[x].name, strftime(t), extension)}}
         = {r[i].new.name : i \in 1..Len(r)}

\* C2: with safe mode on, the files of one directory with one extension that
\* resolve to the same base name B, none of the directory's files being named
\* B<ext> or B_NNN<ext> to begin with, are named B<ext>, B_001<ext>,
\* B_002<ext>, ... in the order in which they are renamed.
C2_SafeModeNumbering ==
    options.safe_mode =>
        \A i \in 1..Len(history) :
            LET dir == history[i].old.dir
                t == history[i].target_date
                extension == ExtensionOf(history[i].old)
                r == RenamesTo(dir, t, extension)
            IN  SeriesWasFree(dir, t, extension, r) =>
                    \A j \in 1..Len(r) : r[j].new.name = SeriesName(strftime(t), j, extension)

\* C2 witness: three files of the top directory have been renamed to B.jpg,
\* B_001.jpg and B_002.jpg.
C2_Witness ==
    /\ options.safe_mode
    /\ Len(history) = 3
    /\ LET r == RenamesTo(TopDir, D1, <<".", "j", "p", "g">>)
       IN  /\ Len(r) = 3
           /\ SeriesWasFree(TopDir, D1, <<".", "j", "p", "g">>, r)
           /\ r[3].new.name = strftime(D1) \o <<"_", "0", "0", "2", ".", "j", "p", "g">>

\* C3: with safe mode off, when a file other than the source exists at the
\* candidate path, the source is skipped as a collision, no exception is
\* raised, and the filesystem (both files, the log) stays as it was.
C3_StrictCollisionSkips ==
    [][(/\ Called
        /\ ~options.safe_mode
        /\ last'.target_date # None
        /\ isfile(files, Candidate(last'))
        /\ Candidate(last') # last'.filepath)
         => (/\ last'.outcome = "collision"
             /\ files' = files
             /\ history' = history
             /\ pc' # "crashed")]_vars

\* C3 witness: a strict-mode call ended in a collision, and the source and the
\* file at the candidate path are both in place.
C3_Witness ==
    /\ ~options.safe_mode
    /\ last.outcome = "collision"
    /\ isfile(files, last.filepath)
    /\ isfile(files, last.new_path)
    /\ last.new_path # last.filepath

\* C4: with dry-run enabled no step changes the filesystem: the set of paths,
\* the files and the contents of the log stay as they were.
C4_DryRunChangesNothing == [][options.dry_run_mode => files' = files]_vars

\* C4 witness: a dry-run has previewed a rename, in a second call, with logging on.
C4_Witness ==
    /\ options.dry_run_mode /\ options.log_mode
    /\ last.outcome = "preview"
    /\ last.n >= 2

\* C5: a failure on one file of a directory walk does not stop the walk: when
\* the program has stopped on an exception, no file of the walk is left unvisited.
C5_FailureIsolated == pc = "crashed" => WalkDone(walk)

\* C6: the running script is never renamed: it stays at its original path.
C6_ScriptNeverRenamed ==
    /\ \A i \in 1..Len(history) : history[i].id # ScriptId
    /\ ScriptId \in DOMAIN files =>
          files[ScriptId].dir = TopDir /\ files[ScriptId].name = ScriptName

\* C7: with logging enabled the log follows the rename history: every
\* completed rename appends exactly one entry (old path, new path) to the
\* entries the log holds, and no other step changes them.
C7_LogEqualsHistory ==
    [][options.log_mode =>
         ReadLog(files', target_path)
           = IF Called /\ last'.outcome = "renamed"
             THEN Append(ReadLog(files, target_path),
                         LogEntry(last'.filepath, last'.new_path))
             ELSE ReadLog(files, target_path)]_vars

\* every image file of the walked tree has a metadata date
AllImagesHaveDate ==
    \A id \in TreeIds(files, target_path) :
        is_image_file(files[id].name) => files[id].exif # None

\* the step in which a metadata-mode walk returns to the menu
MetadataWalkEnds ==
    /\ pc' = "menu" /\ walk'.action = "metadata"
    /\ pc = "walking" \/ ops' # ops

\* C8 as stated: a completed metadata-mode walk over N regular files of which M
\* are non-image renames exactly N-M files when every image file has a
\* metadata date.
C8_ExactlyNMinusM ==
    [][(MetadataWalkEnds /\ ~options.dry_run_mode /\ AllImagesHaveDate)
         => walk'.renamed = walk'.n_files - walk'.n_non_image]_vars

\* a step of a metadata-mode walk: one iteration of its loop
MetadataWalkStep == pc = "walking" /\ walk.action = "metadata"

\* the name the iteration is about: the one that leaves the listing
VisitedNames == walk.todo \ (IF walk'.root = walk.root THEN walk'.todo ELSE {})

\* the step gives file id another name
NameChanged(id) == id \in DOMAIN files' /\ files'[id].name # files[id].name

\* What lets a metadata-mode rename of file id go through, read from the
\* filesystem and the settings: an image extension, a metadata date, dry-run
\* off, a file the process can move and, with safe mode off, no file (the file
\* itself included) at <dir>/<metadata date><ext>.
MetadataEligible(id) ==
    /\ lower(splitext(files[id].name)[2]) \in IMAGE_EXTENSIONS
    /\ files[id].exif # None
    /\ ~options.dry_run_mode
    /\ files[id].movable
    /\ \/ options.safe_mode
       \/ ~\E x \in DOMAIN files :
             /\ files[x].dir = files[id].dir
             /\ files[x].name = strftime(files[id].exif) \o splitext(files[id].name)[2]

AllImagesMovable ==
    \A id \in TreeIds(files, target_path) :
        lower(splitext(files[id].name)[2]) \in IMAGE_EXTENSIONS => files[id].movable

\* C8 amended: a metadata-mode walk renames no non-image file and never more
\* than N-M files. In each iteration the visited file is renamed exactly when it
\* is an image file with a metadata date, dry-run is off, the file can be moved
\* and, with safe mode off, no file is at its candidate path; no other file is
\* renamed, and the count of renamed files grows with the renames. With safe
\* mode on and dry-run off, a walk that returns has renamed exactly N-M files
\* when every image file has a metadata date and can be moved.
C8_RenamedWhenEligible ==
    /\ [](walk.action = "metadata" => walk.renamed <= walk.n_files - walk.n_non_image)
    /\ [][MetadataWalkStep =>
            /\ \A id \in DOMAIN files :
                  NameChanged(id) <=> /\ files[id].dir = walk.root
                                      /\ files[id].name \in VisitedNames
                                      /\ MetadataEligible(id)
            /\ walk'.renamed
                 = walk.renamed + Cardinality({id \in DOMAIN files : NameChanged(id)})]_vars
    /\ [][(/\ MetadataWalkEnds
           /\ ~options.dry_run_mode /\ options.safe_mode
           /\ AllImagesHaveDate /\ AllImagesMovable)
            => walk'.renamed = walk'.n_files - walk'.n_non_image]_vars

\* C8 witness: a metadata-mode walk with safe mode off has returned from a tree
\* of two images with the same metadata date and a non-image file: one image
\* has the name of that date, the other was left with its name.
C8_Witness ==
    /\ pc = "menu" /\ walk.action = "metadata" /\ ~options.safe_mode
    /\ walk.n_files = 3 /\ walk.n_non_image = 1 /\ walk.renamed = 1
    /\ \E x, y \in DOMAIN files :
          /\ files[x].exif = D1 /\ files[y].exif = D1
          /\ files[x].dir = TopDir /\ files[y].dir = TopDir
          /\ files[x].name = strftime(D1) \o <<".", "j", "p", "g">>
          /\ files[y].name = <<"b", ".", "j", "p", "g">>
          /\ \E i \in 1..Len(history) : history[i].id = x

\* ------------------------------------------------------------------ the parser on its own

\* the program does nothing while a pure function is examined
MainIdle ==
    /\ files = [x \in {} |-> None]
    /\ next_id = 1
    /\ options = [o \in OptionNames |-> FALSE]
    /\ target_path = DirPath("abs")
    /\ pc = "menu"
    /\ walk = IdleWalk
    /\ ops = 0
    /\ last = NoCall
    /\ history = <<>>

MainUnchanged ==
    UNCHANGED <<files, next_id, options, target_path, pc, walk, ops, last, history>>

\* t written as YYYY-MM-DD<sep1>HH<sep2>MM<sep2>SS
Encode(t, sep1, sep2) ==
    ZeroPad(t.y, 4) \o <<"-">> \o ZeroPad(t.m, 2) \o <<"-">> \o ZeroPad(t.d, 2)
    \o <<sep1>> \o ZeroPad(t.h, 2) \o <<sep2>> \o ZeroPad(t.mi, 2) \o <<sep2>> \o ZeroPad(t.s, 2)

\* calendar-valid timestamps: the dates of the files, a leap day, the first
\* and the last four-digit instants
ParseDates ==
    {D1, D2, D3, Date(2024, 2, 29, 12, 0, 0), Date(1000, 1, 1, 0, 0, 0),
     Date(9999, 12, 31, 23, 59, 59)}

\* date and time separators of the three formats of the docstring
ParseFormats == {<<" ", "-">>, <<"_", "-">>, <<" ", ".">>}

ParseSuffixes == {<<>>, <<"-", "3">>, <<"_", "0", "0", "1">>, <<"_", "1", "0", "0", "0">>}

ParseExtensions == {<<>>, <<".", "j", "p", "g">>, <<".", "J", "P", "E", "G">>}

InitParse ==
    /\ MainIdle
    /\ \E t \in ParseDates, f \in ParseFormats, suffix \in ParseSuffixes,
          extension \in ParseExtensions :
          pin = [t |-> t, sep2 |-> f[2], suffix |-> suffix, extension |-> extension,
                 name |-> Encode(t, f[1], f[2]) \o suffix \o extension]
    /\ pout = None

Parse ==
    /\ pout = None
    /\ pout' = [date |-> parse_filename_date(pin.name)]
    /\ UNCHANGED pin
    /\ MainUnchanged

NextParse == Parse

SpecParse == InitParse /\ [][NextParse]_vars

\* C9: for every calendar-valid timestamp t, parse_filename_date returns t for
\* t written in one of the three formats, optionally followed by a suffix and
\* an extension.
C9_ParserRoundTrip == pout # None => pout.date = pin.t

\* ------------------------------------------------------------------ the mismatch checker on its own

\* timestamps around the turn of a year, each with its distance in seconds
\* from 2025-12-31 23:59:58 (counted by hand)
MismatchDates ==
    { [date |-> Date(2025, 12, 31, 23, 59, 58), offset |-> 0],
      [date |-> Date(2025, 12, 31, 23, 59, 59), offset |-> 1],
      [date |-> Date(2026, 1, 1, 0, 0, 0), offset |-> 2],
      [date |-> Date(2026, 1, 1, 0, 0, 1), offset |-> 3],
      [date |-> Date(2026, 1, 1, 0, 0, 2), offset |-> 4],
      [date |-> Date(2026, 1, 1, 0, 1, 0), offset |-> 62],
      [date |-> D1, offset |-> 1693802] }

\* the largest tolerance_seconds examined
MaxTolerance == 3

UnparseableName == <<"r", "a", "n", "d", "o", "m", "_", "n", "a", "m", "e", ".", "j", "p", "g">>

InitMismatch ==
    /\ MainIdle
    /\ \E exif \in MismatchDates \cup {None}, tolerance_seconds \in 0..MaxTolerance :
          \/ \E fd \in MismatchDates :
                pin = [filename_date |-> fd, exif |-> exif, tolerance_seconds |-> tolerance_seconds,
                       name |-> strftime(fd.date) \o <<".", "j", "p", "g">>]
          \/ pin = [filename_date |-> None, exif |-> exif, tolerance_seconds |-> tolerance_seconds,
                    name |-> UnparseableName]
    /\ pout = None

CheckMismatch ==
    /\ pout = None
    /\ pout' = [result |-> check_mismatch(pin.name,
                                          IF pin.exif = None THEN None ELSE pin.exif.date,
                                          pin.tolerance_seconds)]
    /\ UNCHANGED pin
    /\ MainUnchanged

NextMismatch == CheckMismatch

SpecMismatch == InitMismatch /\ [][NextMismatch]_vars

\* C10: check_mismatch returns None exactly when the filename date or the
\* metadata date is absent; otherwise it returns True iff the two timestamps
\* are more than tolerance_seconds apart, whichever of them is later.
C10_MismatchClassification ==
    pout # None =>
        IF pin.filename_date = None \/ pin.exif = None
        THEN pout.result[1] = "None"
        ELSE pout.result[1] =
                 Tri(Abs(pin.filename_date.offset - pin.exif.offset) > pin.tolerance_seconds)

\* C10 witness: with the default tolerance, 23:59:59 against 00:00:01 of the next
\* day (2 seconds) is a match and 23:59:58 against it (3 seconds) would not be.
C10_Witness ==
    /\ pout # None
    /\ pin.tolerance_seconds = DefaultTolerance
    /\ pin.filename_date # None /\ pin.exif # None
    /\ pin.exif.offset - pin.filename_date.offset = 2
    /\ pin.filename_date.date.y # pin.exif.date.y
    /\ pout.result[1] = "False"

\* ------------------------------------------------------------------ a dry run beside the run it previews

\* the actions that rename
RenameActions == {"modified", "metadata"}

\* the files the process may move (what a failing move does to a walk is C5)
MovableIds == {i \in 1..Len(Pool) : Pool[i].movable}

\* what main has done to a filesystem so far, and the last file it handled
StartOfRun(fs) ==
    [files |-> fs, next_id |-> Len(Pool) + 1, pc |-> "menu",
     filepath |-> None, outcome |-> "none", new_path |-> None]

\* one call of rename_file_by_date in a run of its own; a run that an exception
\* has ended makes no further call
CallIn(run, opts, target, filepath, use_metadata, now) ==
    IF run.pc = "crashed" THEN [run EXCEPT !.filepath = filepath, !.outcome = "none",
                                           !.new_path = None]
    ELSE LET r == rename_file_by_date(run.files, run.next_id, opts, target, filepath,
                                      use_metadata, now)
         IN  [files |-> r.files,
              next_id |-> IF run.next_id \in DOMAIN r.files THEN run.next_id + 1
                          ELSE run.next_id,
              pc |-> IF Raised(r.outcome) THEN "crashed" ELSE "menu",
              filepath |-> filepath, outcome |-> r.outcome, new_path |-> r.new_path]

\* a file the walk passes over without a call
PassIn(run, filepath) ==
    [run EXCEPT !.filepath = filepath, !.outcome = "none", !.new_path = None]

\* the same operation with dry-run off
DryRunOff(opts) == [opts EXCEPT !.dry_run_mode = FALSE]

\* the same command line with dry-run on, for every filesystem, safe-mode and
\* log setting, renaming action and target path
InitPreview ==
    /\ MainIdle
    /\ \E S \in SUBSET MovableIds, opts \in [OptionNames -> BOOLEAN],
          action \in RenameActions, form \in Forms :
          /\ S # {} /\ Cardinality(S) <= MaxFiles
          /\ opts.dry_run_mode
          /\ \E target \in {DirPath(form), SubDirPath(form)}
                             \cup {Path(form, Pool[i].dir, Pool[i].name) : i \in S} :
                pin = [fs |-> Restrict(Pool, S), options |-> opts, action |-> action,
                       target_path |-> target]
    /\ pout = None

\* process_path on a single file, with dry-run on and with dry-run off
PreviewFile(now) ==
    /\ pout = None
    /\ isfile(pin.fs, pin.target_path)
    /\ pout' = [walk |-> IdleWalk,
                dry  |-> CallIn(StartOfRun(pin.fs), pin.options, pin.target_path,
                                pin.target_path, pin.action = "metadata", now),
                real |-> CallIn(StartOfRun(pin.fs), DryRunOff(pin.options), pin.target_path,
                                pin.target_path, pin.action = "metadata", now)]
    /\ UNCHANGED pin
    /\ MainUnchanged

\* process_path on a directory: both runs start from the same filesystem, so
\* os.walk lists the same names for them
PreviewDir ==
    /\ pout = None
    /\ exists(pin.fs, pin.target_path) /\ ~isfile(pin.fs, pin.target_path)
    /\ pout' = [walk |-> Advance(pin.fs,
                          [IdleWalk EXCEPT !.action = pin.action,
                                           !.root = WalkRoot(pin.target_path),
                                           !.todo = Listing(pin.fs, WalkRoot(pin.target_path)),
                                           !.pending = WalkBelow(pin.target_path)]),
                dry  |-> StartOfRun(pin.fs),
                real |-> StartOfRun(pin.fs)]
    /\ UNCHANGED pin
    /\ MainUnchanged

\* one iteration of "for file in files" in both runs, on the same file. Every
\* rename stays in its directory and the log is written into the directory the
\* walk starts in, which is listed before the first rename, so the directories
\* of the run with dry-run off list as those of the dry run do.
PreviewWalkFile(file, now) ==
    /\ pout # None
    /\ file \in pout.walk.todo
    /\ LET full_path == Path(pin.target_path.form, pout.walk.root, file)
           rest == [pout.walk EXCEPT !.todo = pout.walk.todo \ {file}]
       IN  pout' = IF SkippedByWalk(pin.action, file)
                   THEN [walk |-> Advance(pin.fs, rest),
                         dry  |-> PassIn(pout.dry, full_path),
                         real |-> PassIn(pout.real, full_path)]
                   ELSE [walk |-> Advance(pin.fs, [rest EXCEPT !.files_processed = @ + 1]),
                         dry  |-> CallIn(pout.dry, pin.options, pin.target_path,
                                         full_path, pin.action = "metadata", now),
                         real |-> CallIn(pout.real, DryRunOff(pin.options), pin.target_path,
                                         full_path, pin.action = "metadata", now)]
    /\ UNCHANGED pin
    /\ MainUnchanged

NextPreview ==
    \/ \E now \in NowDates : PreviewFile(now)
    \/ PreviewDir
    \/ \E file \in (IF pout = None THEN {} ELSE pout.walk.todo), now \in NowDates :
          PreviewWalkFile(file, now)

SpecPreview == InitPreview /\ [][NextPreview]_vars

\* C11: whenever the dry run reports a preview "old -> candidate" for a file,
\* the same operation with dry-run off, started from the same filesystem,
\* renames that file to that candidate; for a single file and for each file of
\* a directory walk.
C11_PreviewFidelity ==
    (pout # None /\ pout.dry.outcome = "preview") =>
        /\ pout.real.filepath = pout.dry.filepath
        /\ pout.real.outcome = "renamed"
        /\ pout.real.new_path = pout.dry.new_path

====
